---- MODULE Spec2Model ----
(***************************************************************************)
(* State-machine model of the mymoneymap calculators: each calculator is a *)
(* react-hook-form form validated by a zod schema, an onSubmit handler     *)
(* that applies a function of utils/calculations.ts and a piece of         *)
(* component state holding the result.                                     *)
(*                                                                         *)
(* JavaScript numbers are modelled as exact rationals (arbitrary           *)
(* precision): Math.round, Math.max, Math.min, Math.ceil and Math.pow act  *)
(* on the exact value.  The rounding error of IEEE-754 doubles is outside  *)
(* the model.                                                              *)
(***************************************************************************)
EXTENDS Integers, Sequences, FiniteSets, TLC

(***************************************************************************)
(* Natural numbers of arbitrary size: little-endian sequences of limbs in  *)
(* base Base, without leading zero limbs; zero is the empty sequence.      *)
(* Intermediate values are passed as operator arguments, so that each is   *)
(* computed once.                                                          *)
(***************************************************************************)
Base == 100 * 100

Max2(x, y) == IF x >= y THEN x ELSE y
Min2(x, y) == IF x <= y THEN x ELSE y

RECURSIVE BigOf(_)
BigOf(n) == IF n = 0 THEN <<>> ELSE <<n % Base>> \o BigOf(n \div Base)

RECURSIVE BToInt(_)
BToInt(a) == IF a = <<>> THEN 0 ELSE a[1] + Base * BToInt(Tail(a))

Limb(a, k) == IF k <= Len(a) THEN a[k] ELSE 0

RECURSIVE TopNonZero(_, _, _)
TopNonZero(a, lo, hi) ==
  IF lo > hi THEN 0
  ELSE IF lo = hi THEN (IF a[lo] # 0 THEN lo ELSE 0)
  ELSE LET mid == (lo + hi) \div 2
           up  == TopNonZero(a, mid + 1, hi)
       IN  IF up # 0 THEN up ELSE TopNonZero(a, lo, mid)

BTrim(a) == SubSeq(a, 1, TopNonZero(a, 1, Len(a)))

\* the limbs x.d with the carry out x.c on top
WithCarry(x) == IF x.c = 0 THEN x.d ELSE Append(x.d, x.c)

\* limbs lo..hi of a + b + carry: [d |-> the limbs, c |-> the carry out].  The
\* tests on a carry (L.c >= 0, always true) fix the order of evaluation: the low
\* half is computed before the high half starts.
RECURSIVE BAddRange(_, _, _, _, _)
BAddRange(a, b, lo, hi, carry) ==
  IF lo = hi
    THEN LET s == Limb(a, lo) + Limb(b, lo) + carry
         IN  [d |-> <<s % Base>>, c |-> s \div Base]
    ELSE LET mid == (lo + hi) \div 2
             L   == BAddRange(a, b, lo, mid, carry)
         IN  IF L.c >= 0
               THEN LET H == BAddRange(a, b, mid + 1, hi, L.c)
                    IN  [d |-> L.d \o H.d, c |-> H.c]
               ELSE L

BAdd(a, b) ==
  IF a = <<>> THEN b
  ELSE IF b = <<>> THEN a
  ELSE WithCarry(BAddRange(a, b, 1, Max2(Len(a), Len(b)), 0))

RECURSIVE BCmpRange(_, _, _, _)
BCmpRange(a, b, lo, hi) ==
  IF lo = hi
    THEN (IF a[lo] > b[lo] THEN 1 ELSE IF a[lo] < b[lo] THEN -1 ELSE 0)
    ELSE LET mid == (lo + hi) \div 2
             up  == BCmpRange(a, b, mid + 1, hi)
         IN  IF up # 0 THEN up ELSE BCmpRange(a, b, lo, mid)

\* -1, 0 or 1 as a < b, a = b, a > b
BCmp(a, b) ==
  IF Len(a) > Len(b) THEN 1
  ELSE IF Len(a) < Len(b) THEN -1
  ELSE IF a = <<>> THEN 0
  ELSE BCmpRange(a, b, 1, Len(a))

RECURSIVE BSubRange(_, _, _, _, _)
BSubRange(a, b, lo, hi, borrow) ==
  IF lo = hi
    THEN LET s == a[lo] - Limb(b, lo) - borrow
         IN  IF s < 0 THEN [d |-> <<s + Base>>, c |-> 1] ELSE [d |-> <<s>>, c |-> 0]
    ELSE LET mid == (lo + hi) \div 2
             L   == BSubRange(a, b, lo, mid, borrow)
         IN  IF L.c >= 0
               THEN LET H == BSubRange(a, b, mid + 1, hi, L.c)
                    IN  [d |-> L.d \o H.d, c |-> H.c]
               ELSE L

\* a - b for a >= b
BSub(a, b) == IF b = <<>> THEN a ELSE BTrim(BSubRange(a, b, 1, Len(a), 0).d)

RECURSIVE BMulLimbRange(_, _, _, _, _)
BMulLimbRange(a, m, lo, hi, carry) ==
  IF lo = hi
    THEN LET p == a[lo] * m + carry
         IN  [d |-> <<p % Base>>, c |-> p \div Base]
    ELSE LET mid == (lo + hi) \div 2
             L   == BMulLimbRange(a, m, lo, mid, carry)
         IN  IF L.c >= 0
               THEN LET H == BMulLimbRange(a, m, mid + 1, hi, L.c)
                    IN  [d |-> L.d \o H.d, c |-> H.c]
               ELSE L

\* a * m for a limb 0 <= m < Base
BMulLimb(a, m) ==
  IF m = 0 \/ a = <<>> THEN <<>>
  ELSE IF m = 1 THEN a
  ELSE WithCarry(BMulLimbRange(a, m, 1, Len(a), 0))

BShift(a, n) == IF a = <<>> THEN a ELSE [k \in 1..n |-> 0] \o a

RECURSIVE BMulRange(_, _, _, _)
BMulRange(a, b, lo, hi) ==
  IF lo = hi THEN BMulLimb(a, b[lo])
  ELSE LET mid == (lo + hi) \div 2
       IN  BAdd(BMulRange(a, b, lo, mid),
                BShift(BMulRange(a, b, mid + 1, hi), mid + 1 - lo))

BMul(a, b) ==
  IF a = <<>> \/ b = <<>> THEN <<>>
  ELSE IF b = <<1>> THEN a
  ELSE IF a = <<1>> THEN b
  ELSE IF Len(a) >= Len(b) THEN BMulRange(a, b, 1, Len(b))
  ELSE BMulRange(b, a, 1, Len(a))

BSquare(a) == BMul(a, a)

RECURSIVE BPow(_, _)
BPow(a, n) ==
  IF n = 0 THEN <<1>>
  ELSE IF n = 1 THEN a
  ELSE BMul(BSquare(BPow(a, n \div 2)), IF n % 2 = 1 THEN a ELSE <<1>>)

\* a divided by a limb 0 < m < Base, limbs hi..lo, most significant first
RECURSIVE BDivLimbRange(_, _, _, _, _)
BDivLimbRange(a, m, lo, hi, rem) ==
  IF lo = hi
    THEN LET t == rem * Base + a[lo]
         IN  [q |-> <<t \div m>>, r |-> t % m]
    ELSE LET mid == (lo + hi) \div 2
             H   == BDivLimbRange(a, m, mid + 1, hi, rem)
         IN  IF H.r >= 0
               THEN LET L == BDivLimbRange(a, m, lo, mid, H.r)
                    IN  [q |-> L.q \o H.q, r |-> L.r]
               ELSE H

BDivLimb(a, m) ==
  IF a = <<>> \/ m = 1 THEN a
  ELSE BTrim(BDivLimbRange(a, m, 1, Len(a), 0).q)

\* the quotient limb of r by b, where b's top limb is at least Base / 2 and
\* r < b * Base: the estimate from the top limbs is at most 2 too large
RECURSIVE QFix(_, _, _)
QFix(r, b, q) ==
  IF q = 0 \/ BCmp(BMulLimb(b, q), r) <= 0 THEN q ELSE QFix(r, b, q - 1)

QDigit(r, b) ==
  IF BCmp(r, b) < 0 THEN 0
  ELSE QFix(r, b, Min2((Limb(r, Len(b)) + Base * Limb(r, Len(b) + 1)) \div b[Len(b)],
                       Base - 1))

\* one step of the long division: the quotient limb d of r by b
BDivStep(r, b, d) ==
  [q |-> <<d>>, r |-> IF d = 0 THEN r ELSE BSub(r, BMulLimb(b, d))]

BDivLeaf(r, b) == BDivStep(r, b, QDigit(r, b))

\* long division of limbs hi..lo of a by b, most significant limb first, the
\* remainder of the limbs above carried in
RECURSIVE BDivRange(_, _, _, _, _)
BDivRange(a, b, lo, hi, rem) ==
  IF lo = hi
    THEN BDivLeaf(BTrim(<<a[lo]>> \o rem), b)
    ELSE LET mid == (lo + hi) \div 2
             H   == BDivRange(a, b, mid + 1, hi, rem)
         IN  IF Len(H.r) >= 0
               THEN LET L == BDivRange(a, b, lo, mid, H.r)
                    IN  IF Len(L.r) >= 0 THEN [q |-> L.q \o H.q, r |-> L.r]
                                         ELSE [q |-> <<>>, r |-> <<>>]
               ELSE [q |-> <<>>, r |-> <<>>]

\* the division of af = a * f by bf = b * f, f the normalising factor
BDivScaled(x, f) == [q |-> BTrim(x.q), r |-> BDivLimb(x.r, f)]

BDivNormal(af, bf, f) == BDivScaled(BDivRange(af, bf, 1, Len(af), <<>>), f)

BDivBy(a, b, f) == BDivNormal(BMulLimb(a, f), BMulLimb(b, f), f)

\* [q |-> a div b, r |-> a mod b] for b > 0
BDivMod(a, b) ==
  IF b = <<1>> THEN [q |-> a, r |-> <<>>]
  ELSE IF BCmp(a, b) < 0 THEN [q |-> <<>>, r |-> a]
  ELSE BDivBy(a, b, Base \div (b[Len(b)] + 1))

BDivides(a, b) == BDivMod(b, a).r = <<>>

RECURSIVE BGcd(_, _)
BGcd(a, b) == IF b = <<>> THEN a ELSE BGcd(b, BDivMod(a, b).r)

(***************************************************************************)
(* JavaScript numbers: exact rationals [neg, num, den] with den > 0; zero  *)
(* has neg = FALSE.  RNorm gives the canonical form (lowest terms), which  *)
(* every number stored in the state has.                                   *)
(***************************************************************************)
Abs(n) == IF n < 0 THEN -n ELSE n

Mk(neg, num, den) == [neg |-> neg /\ num # <<>>, num |-> num, den |-> den]

RReduce(x, g) ==
  IF g = <<1>> THEN x ELSE Mk(x.neg, BDivMod(x.num, g).q, BDivMod(x.den, g).q)

RNorm(x) ==
  IF x.num = <<>> THEN Mk(FALSE, <<>>, <<1>>) ELSE RReduce(x, BGcd(x.num, x.den))

\* the number n / d for integers n and d > 0
RQ(n, d) == RNorm(Mk(n < 0, BigOf(Abs(n)), BigOf(d)))
R(n) == Mk(n < 0, BigOf(Abs(n)), <<1>>)

RNeg(x) == Mk(~x.neg, x.num, x.den)

\* x and y over one denominator: [a, b, den], the numerators unsigned; xy is
\* y.den divided by x.den, yx is x.den divided by y.den
CommonDen(x, y, xy, yx) ==
  IF xy.r = <<>> THEN [a |-> BMul(x.num, xy.q), b |-> y.num, den |-> y.den]
  ELSE IF yx.r = <<>> THEN [a |-> x.num, b |-> BMul(y.num, yx.q), den |-> x.den]
  ELSE [a |-> BMul(x.num, y.den), b |-> BMul(y.num, x.den), den |-> BMul(x.den, y.den)]

Common(x, y) ==
  IF x.den = y.den THEN [a |-> x.num, b |-> y.num, den |-> x.den]
  ELSE CommonDen(x, y, BDivMod(y.den, x.den), BDivMod(x.den, y.den))

RAddOver(x, y, c) ==
  IF x.neg = y.neg THEN Mk(x.neg, BAdd(c.a, c.b), c.den)
  ELSE IF BCmp(c.a, c.b) >= 0 THEN Mk(x.neg, BSub(c.a, c.b), c.den)
  ELSE Mk(y.neg, BSub(c.b, c.a), c.den)

RAdd(x, y) == RAddOver(x, y, Common(x, y))

RSub(x, y) == RAdd(x, RNeg(y))

RMul(x, y) == Mk(x.neg # y.neg, BMul(x.num, y.num), BMul(x.den, y.den))

\* x / y for y # 0; c is x.den divided by y.den, which cancels when exact
RDivBy(x, y, c) ==
  IF c.r = <<>> THEN Mk(x.neg # y.neg, x.num, BMul(c.q, y.num))
  ELSE Mk(x.neg # y.neg, BMul(x.num, y.den), BMul(x.den, y.num))

RDiv(x, y) == RDivBy(x, y, BDivMod(x.den, y.den))

\* -1, 0 or 1 as x < y, x = y, x > y
RCmp(x, y) ==
  IF x.neg # y.neg THEN (IF x.neg THEN -1 ELSE 1)
  ELSE (IF x.neg THEN -1 ELSE 1) * BCmp(BMul(x.num, y.den), BMul(y.num, x.den))

RLt(x, y) == RCmp(x, y) < 0
RLe(x, y) == RCmp(x, y) <= 0
REq(x, y) == RCmp(x, y) = 0

IsInteger(x) == BDivMod(x.num, x.den).r = <<>>

\* Math.floor, Math.ceil and Math.round (half up: floor(x + 1/2)), as integers
FloorOf(neg, dm) ==
  IF ~neg THEN BToInt(dm.q)
  ELSE IF dm.r = <<>> THEN -BToInt(dm.q) ELSE -(BToInt(dm.q) + 1)

MathFloor(x) == FloorOf(x.neg, BDivMod(x.num, x.den))

MathCeil(x) == -MathFloor(RNeg(x))

PlusHalf(x, twice, den2) ==
  IF ~x.neg THEN Mk(FALSE, BAdd(twice, x.den), den2)
  ELSE IF BCmp(twice, x.den) <= 0 THEN Mk(FALSE, <<>>, <<1>>)
  ELSE Mk(TRUE, BSub(twice, x.den), den2)

\* a variant of MathRound: the fraction is dropped
MathRoundTruncating(x) == MathFloor(x)

\* Math.round: the nearest integer, halves upwards
MathRound(x) == MathFloor(PlusHalf(x, BMulLimb(x.num, 2), BMulLimb(x.den, 2)))

MathMin(x, y) == IF RLt(y, x) THEN y ELSE x

\* a variant of MathMax: the smaller of the two
MathMaxTakingSmaller(x, y) == IF RLt(y, x) THEN y ELSE x

MathMax(x, y) == IF RLt(x, y) THEN y ELSE x

\* the integer square root of n when n is a perfect square
RECURSIVE ISqrtIn(_, _, _)
ISqrtIn(n, lo, hi) ==
  IF lo >= hi THEN lo
  ELSE LET mid == (lo + hi + 1) \div 2
       IN  IF mid * mid <= n THEN ISqrtIn(n, mid, hi) ELSE ISqrtIn(n, lo, mid - 1)

ISqrt(n) == ISqrtIn(n, 0, Min2(n, 40000))

IsSquareOf(n, s) == s * s = n

IsSquare(a) == Len(a) <= 2 /\ IsSquareOf(BToInt(a), ISqrt(BToInt(a)))

HasExactSqrtNorm(y) == ~y.neg /\ IsSquare(y.num) /\ IsSquare(y.den)

HasExactSqrt(x) == HasExactSqrtNorm(RNorm(x))

SqrtNorm(y) == Mk(FALSE, BigOf(ISqrt(BToInt(y.num))), BigOf(ISqrt(BToInt(y.den))))

SqrtExact(x) == SqrtNorm(RNorm(x))

RPowInt(b, n) == Mk(b.neg /\ n % 2 = 1, BPow(b.num, n), BPow(b.den, n))

\* Math.pow(b, e) for b > 0 and e >= 0, defined where the value is rational:
\* e an integer, or 2e an integer and b the square of a rational
MathPow(b, e) ==
  IF IsInteger(e) THEN RPowInt(b, MathFloor(e))
  ELSE RPowInt(SqrtExact(b), MathFloor(RMul(e, R(2))))

PowDefined(b, e) ==
  IsInteger(e) \/ (IsInteger(RMul(e, R(2))) /\ HasExactSqrt(b))

(***************************************************************************)
(* utils/calculations.ts                                                   *)
(***************************************************************************)
calculateEMI(principal, rate, tenure) ==
  LET Rounded(emi, months) ==
        [emi           |-> MathRound(emi),
         totalAmount   |-> MathRound(RMul(emi, months)),
         totalInterest |-> MathRound(RSub(RMul(emi, months), principal))]
      Emi(monthlyRate, pow) ==
        RDiv(RMul(RMul(principal, monthlyRate), pow), RSub(pow, R(1)))
      Calc(monthlyRate, months) ==
        IF monthlyRate.num = <<>>
          THEN [emi |-> RNorm(RDiv(principal, months)),
                totalAmount |-> principal,
                totalInterest |-> 0]
          ELSE Rounded(Emi(monthlyRate, MathPow(RAdd(R(1), monthlyRate), months)),
                       months)
  IN  Calc(RNorm(RDiv(rate, R(12 * 100))), RMul(tenure, R(12)))

(***************************************************************************)
(* calculators/LoanAmortizationCalculator.tsx                              *)
(***************************************************************************)
\* a variant of ScheduleRow: the interest column holds the interest to date
ScheduleRowInterestToDate(month, emi, principalPayment, interestPayment, balance, cumP, cumI) ==
  [month               |-> month,
   emi                 |-> MathRound(emi),
   principalPayment    |-> MathRound(principalPayment),
   interestPayment     |-> MathRound(cumI),
   remainingBalance    |-> MathRound(balance),
   cumulativePrincipal |-> MathRound(cumP),
   cumulativeInterest  |-> MathRound(cumI)]

\* the row pushed for a month: each amount rounded on its own
ScheduleRow(month, emi, principalPayment, interestPayment, balance, cumP, cumI) ==
  [month               |-> month,
   emi                 |-> MathRound(emi),
   principalPayment    |-> MathRound(principalPayment),
   interestPayment     |-> MathRound(interestPayment),
   remainingBalance    |-> MathRound(balance),
   cumulativePrincipal |-> MathRound(cumP),
   cumulativeInterest  |-> MathRound(cumI)]

\* the for loop of generateAmortizationSchedule, from `month` on
RECURSIVE ScheduleLoop(_, _, _, _, _, _, _, _)
ScheduleLoop(month, totalMonths, emi, monthlyRate, remainingBalance, cumulativePrincipal, cumulativeInterest, schedule) ==
  LET Push(interestPayment, principalPayment, balance, cumP, cumI) ==
        IF Len(balance.den) + Len(cumP.den) + Len(cumI.den) > 0
          THEN ScheduleLoop(month + 1, totalMonths, emi, monthlyRate, balance,
                 cumP, cumI,
                 Append(schedule,
                        ScheduleRow(month, emi, principalPayment, interestPayment,
                                    balance, cumP, cumI)))
          ELSE schedule
      Pay(interestPayment, principalPayment) ==
        Push(interestPayment, principalPayment,
             MathMax(R(0), RSub(remainingBalance, principalPayment)),
             RAdd(cumulativePrincipal, principalPayment),
             RAdd(cumulativeInterest, interestPayment))
      Month(interestPayment) == Pay(interestPayment, RSub(emi, interestPayment))
  IN  IF Len(schedule) >= 0 /\ RLe(R(month), totalMonths)
        THEN Month(RMul(remainingBalance, monthlyRate))
        ELSE schedule

generateAmortizationSchedule(loanAmount, interestRate, loanTenure) ==
  LET Emi(monthlyRate, pow) ==
        RDiv(RMul(RMul(loanAmount, monthlyRate), pow), RSub(pow, R(1)))
      Loop(monthlyRate, totalMonths) ==
        ScheduleLoop(1, totalMonths,
                     Emi(monthlyRate, MathPow(RAdd(R(1), monthlyRate), totalMonths)),
                     monthlyRate, loanAmount, R(0), R(0), <<>>)
  IN  Loop(RNorm(RDiv(interestRate, R(12 * 100))), RMul(loanTenure, R(12)))

(***************************************************************************)
(* utils/calculations.ts, continued                                        *)
(***************************************************************************)
\* a decimal literal n / d of the source, not reduced
Dec(n, d) == Mk(n < 0, BigOf(Abs(n)), BigOf(d))

\* a variant of incomeTaxBeforeCess: the first taxed slab's rate for all income
incomeTaxOfFirstSlab(grossIncome, regime) ==
  IF regime = "new"
    THEN IF RLe(grossIncome, R(300000)) THEN R(0)
         ELSE RMul(RSub(grossIncome, R(300000)), Dec(5, 100))
    ELSE IF RLe(grossIncome, R(250000)) THEN R(0)
         ELSE RMul(RSub(grossIncome, R(250000)), Dec(5, 100))

\* the tax before cess: the variable `tax` of calculateIncomeTax
incomeTaxBeforeCess(grossIncome, regime) ==
  IF regime = "new"
    THEN IF RLe(grossIncome, R(300000)) THEN R(0)
         ELSE IF RLe(grossIncome, R(600000))
           THEN RMul(RSub(grossIncome, R(300000)), Dec(5, 100))
         ELSE IF RLe(grossIncome, R(900000))
           THEN RAdd(R(15000), RMul(RSub(grossIncome, R(600000)), Dec(10, 100)))
         ELSE IF RLe(grossIncome, R(1200000))
           THEN RAdd(R(45000), RMul(RSub(grossIncome, R(900000)), Dec(15, 100)))
         ELSE IF RLe(grossIncome, R(1500000))
           THEN RAdd(R(90000), RMul(RSub(grossIncome, R(1200000)), Dec(20, 100)))
         ELSE RAdd(R(150000), RMul(RSub(grossIncome, R(1500000)), Dec(30, 100)))
    ELSE IF RLe(grossIncome, R(250000)) THEN R(0)
         ELSE IF RLe(grossIncome, R(500000))
           THEN RMul(RSub(grossIncome, R(250000)), Dec(5, 100))
         ELSE IF RLe(grossIncome, R(1000000))
           THEN RAdd(R(12500), RMul(RSub(grossIncome, R(500000)), Dec(20, 100)))
         ELSE RAdd(R(112500), RMul(RSub(grossIncome, R(1000000)), Dec(30, 100)))

calculateIncomeTax(grossIncome, regime) ==
  LET Rounded(tax, cess, totalTax) ==
        [tax       |-> MathRound(tax),
         cess      |-> MathRound(cess),
         totalTax  |-> MathRound(totalTax),
         netIncome |-> MathRound(RSub(grossIncome, totalTax))]
      WithCess(tax, cess) == Rounded(tax, cess, RAdd(tax, cess))
      AddCess(tax) == WithCess(tax, RMul(tax, Dec(4, 100)))
  IN  AddCess(incomeTaxBeforeCess(grossIncome, regime))

calculateHRAExemption(salary, hra, rentPaid, isMetroCity) ==
  LET Rounded(basicSalary, hraExemption) ==
        [hraExemption |-> MathRound(hraExemption),
         taxableHRA   |-> MathRound(RSub(hra, hraExemption)),
         actualRent   |-> MathRound(rentPaid),
         basicSalary  |-> MathRound(basicSalary)]
      Exemption(basicSalary) ==
        Rounded(basicSalary,
                MathMin(hra,
                  MathMin(RMul(basicSalary, IF isMetroCity THEN Dec(5, 10) ELSE Dec(4, 10)),
                          MathMax(R(0), RSub(rentPaid, RMul(basicSalary, Dec(1, 10)))))))
  IN  Exemption(RMul(salary, Dec(5, 10)))

\* the variable `multiplier` of calculateEmergencyFund
emergencyMultiplier(dependents, jobStability, hasInsurance) ==
  RAdd(RAdd(R(6 + (IF jobStability = "low" THEN 3
                   ELSE IF jobStability = "medium" THEN 1 ELSE 0)),
            RMul(dependents, Dec(5, 10))),
       R(IF hasInsurance THEN 0 ELSE 1))

calculateEmergencyFund(monthlyExpenses, dependents, jobStability, hasInsurance) ==
  LET Rounded(multiplier) ==
        [recommendedAmount |-> MathRound(RMul(monthlyExpenses, multiplier)),
         months            |-> MathRound(multiplier),
         monthlyExpenses   |-> MathRound(monthlyExpenses)]
  IN  Rounded(emergencyMultiplier(dependents, jobStability, hasInsurance))

(***************************************************************************)
(* Bounds of the model                                                     *)
(***************************************************************************)
\* loan tenures explored: whole years up to MaxTenureYears (and 1.125 years)
MaxTenureYears == 1

\* the clock runs for MaxClock half-days after a calculator is mounted
MaxClock == 2

\* conversions made by a mounted currency converter
MaxConversions == 2

(***************************************************************************)
(* The state: the calculator mounted by CalculatorPage, the values and     *)
(* error state of its form, and the component state of the calculator.     *)
(***************************************************************************)
VARIABLES
  page,            \* the id of the mounted calculator
  form,            \* react-hook-form's field values
  errors,          \* the fields with an error message (formState.errors)
  isSubmitted,     \* formState.isSubmitted
  result,          \* useState `result`: <<>> is null, <<r>> holds the record r
  schedule,        \* LoanAmortizationCalculator: useState `schedule`
  summary,         \* LoanAmortizationCalculator: useState `summary`
  viewMode,        \* LoanAmortizationCalculator: useState `viewMode`
  historicalRates, \* CurrencyConverter: useState `historicalRates`
  now,             \* the wall clock, in half-days since the calculator was mounted
  submitted,       \* the data the last call of onSubmit received (history)
  downloaded,      \* the file the last download handed to the browser, <<>> if none
  location         \* the path of the URL, as the sequence of its segments

vars == <<page, form, errors, isSubmitted, result, schedule, summary, viewMode,
          historicalRates, now, submitted, downloaded,
          location>>

Null == <<>>
Some(r) == <<r>>

\* Date.prototype.toLocaleDateString: the day of an instant; toLocaleString:
\* the instant to the clock's resolution
toLocaleDateString(t) == t \div 2
toLocaleString(t) == t

\* n days in the clock's unit
Days(n) == 2 * n

(***************************************************************************)
(* EMI calculator                                                          *)
(***************************************************************************)
emiDefaultValues ==
  [loanAmount |-> R(1000000), interestRate |-> RQ(85, 10), loanTenure |-> R(15)]

\* a variant of emiSchema: the interest rate has no maximum
emiSchemaNoMaximumRate(data) ==
     {f \in {"loanAmount"} : RLt(data.loanAmount, R(1))}
  \cup {f \in {"interestRate"} : RLt(data.interestRate, Dec(1, 10))}
  \cup {f \in {"loanTenure"} : RLt(data.loanTenure, R(1))
                               \/ RLt(R(50), data.loanTenure)}

\* the fields emiSchema rejects
emiSchema(data) ==
     {f \in {"loanAmount"} : RLt(data.loanAmount, R(1))}
  \cup {f \in {"interestRate"} : RLt(data.interestRate, Dec(1, 10))
                                 \/ RLt(R(50), data.interestRate)}
  \cup {f \in {"loanTenure"} : RLt(data.loanTenure, R(1))
                               \/ RLt(R(50), data.loanTenure)}

(***************************************************************************)
(* Loan amortization calculator                                            *)
(***************************************************************************)
amortizationDefaultValues ==
  [loanAmount |-> R(2500000), interestRate |-> RQ(85, 10), loanTenure |-> R(20)]

amortizationSchema(data) ==
     {f \in {"loanAmount"} : RLt(data.loanAmount, R(1))}
  \cup {f \in {"interestRate"} : RLt(data.interestRate, Dec(1, 10))
                                 \/ RLt(R(50), data.interestRate)}
  \cup {f \in {"loanTenure"} : RLt(data.loanTenure, R(1))
                               \/ RLt(R(50), data.loanTenure)}

\* the summary onSubmit stores: emiResult and the monthly averages
amortizationSummary(data) ==
  LET Averages(emiResult, months) ==
        [emi                 |-> emiResult.emi,
         totalAmount         |-> emiResult.totalAmount,
         totalInterest       |-> emiResult.totalInterest,
         totalMonths         |-> RNorm(months),
         avgMonthlyPrincipal |-> MathRound(RDiv(data.loanAmount, months)),
         avgMonthlyInterest  |-> MathRound(RDiv(R(emiResult.totalInterest), months))]
  IN  Averages(calculateEMI(data.loanAmount, data.interestRate, data.loanTenure),
               RMul(data.loanTenure, R(12)))

(***************************************************************************)
(* Income tax calculator                                                   *)
(***************************************************************************)
incomeTaxDefaultValues ==
  [grossIncome |-> R(1000000), regime |-> "new", deductions |-> R(0)]

incomeTaxSchema(data) ==
     {f \in {"grossIncome"} : RLt(data.grossIncome, R(0))}
  \cup {f \in {"deductions"} : RLt(data.deductions, R(0))}

\* the `taxableIncome` of onSubmit
taxableIncomeOf(data) ==
  IF data.regime = "old"
    THEN RNorm(MathMax(R(0), RSub(data.grossIncome, data.deductions)))
    ELSE data.grossIncome

\* the record onSubmit stores
incomeTaxResult(data) ==
  LET Stored(calculation, taxableIncome) ==
        [tax           |-> calculation.tax,
         cess          |-> calculation.cess,
         totalTax      |-> calculation.totalTax,
         netIncome     |-> calculation.netIncome,
         grossIncome   |-> data.grossIncome,
         deductions    |-> data.deductions,
         taxableIncome |-> taxableIncome]
      Calculate(taxableIncome) ==
        Stored(calculateIncomeTax(taxableIncome, data.regime), taxableIncome)
  IN  Calculate(taxableIncomeOf(data))

(***************************************************************************)
(* HRA calculator                                                          *)
(***************************************************************************)
hraDefaultValues ==
  [salary |-> R(600000), hra |-> R(180000), rentPaid |-> R(240000),
   isMetroCity |-> TRUE]

hraSchema(data) ==
     {f \in {"salary"} : RLt(data.salary, R(0))}
  \cup {f \in {"hra"} : RLt(data.hra, R(0))}
  \cup {f \in {"rentPaid"} : RLt(data.rentPaid, R(0))}

(***************************************************************************)
(* Emergency fund calculator                                               *)
(***************************************************************************)
emergencyFundDefaultValues ==
  [monthlyExpenses |-> R(50000), dependents |-> R(1), jobStability |-> "medium",
   hasHealthInsurance |-> TRUE, hasLifeInsurance |-> TRUE,
   currentEmergencyFund |-> R(0), monthlySavingsCapacity |-> R(10000)]

emergencyFundSchema(data) ==
     {f \in {"monthlyExpenses"} : RLt(data.monthlyExpenses, R(5000))}
  \cup {f \in {"dependents"} : RLt(data.dependents, R(0))
                               \/ RLt(R(10), data.dependents)}
  \cup {f \in {"currentEmergencyFund"} : RLt(data.currentEmergencyFund, R(0))}
  \cup {f \in {"monthlySavingsCapacity"} : RLt(data.monthlySavingsCapacity, R(0))}

\* the `enhancedResult` of onSubmit, the clock reading t
enhancedResult(data, t) ==
  LET Enhanced(calculation, shortfall, monthsToGoal) ==
        [recommendedAmount     |-> calculation.recommendedAmount,
         months                |-> calculation.months,
         monthlyExpenses       |-> calculation.monthlyExpenses,
         currentFund           |-> data.currentEmergencyFund,
         shortfall             |-> RNorm(shortfall),
         monthsToGoal          |-> monthsToGoal,
         targetAchievementDate |->
           IF monthsToGoal > 0
             THEN Some(toLocaleDateString(t + monthsToGoal * Days(30)))
             ELSE Null,
         adequacyPercentage    |->
           MathRound(RMul(RDiv(data.currentEmergencyFund,
                               R(calculation.recommendedAmount)), R(100)))]
      Goal(calculation, shortfall) ==
        Enhanced(calculation, shortfall,
                 IF RLt(R(0), data.monthlySavingsCapacity)
                   THEN MathCeil(RDiv(shortfall, data.monthlySavingsCapacity))
                   ELSE 0)
      Shortfall(calculation) ==
        Goal(calculation,
             MathMax(R(0), RSub(R(calculation.recommendedAmount),
                                data.currentEmergencyFund)))
  IN  Shortfall(calculateEmergencyFund(data.monthlyExpenses, data.dependents,
                  data.jobStability,
                  data.hasHealthInsurance /\ data.hasLifeInsurance))

(***************************************************************************)
(* Currency converter                                                      *)
(***************************************************************************)
currencyDefaultValues ==
  [amount |-> R(1000), fromCurrency |-> "USD", toCurrency |-> "INR"]

currencySchema(data) ==
     {f \in {"amount"} : RLt(data.amount, Dec(1, 100))}
  \cup {f \in {"fromCurrency"} : data.fromCurrency = ""}
  \cup {f \in {"toCurrency"} : data.toCurrency = ""}

\* the entries of `currencies` for the currencies of the model (symbols by name)
currencies ==
  <<[code |-> "INR", symbol |-> "rupee sign"],
    [code |-> "USD", symbol |-> "$"],
    [code |-> "EUR", symbol |-> "euro sign"],
    [code |-> "GBP", symbol |-> "pound sign"]>>

\* the rates of mockExchangeRates between the currencies of the model
mockExchangeRates ==
  [USD |-> [INR |-> Dec(8325, 100), EUR |-> Dec(92, 100), GBP |-> Dec(79, 100)],
   INR |-> [USD |-> Dec(12, 1000), EUR |-> Dec(11, 1000), GBP |-> Dec(95, 10000)]]

\* mockExchangeRates[a] && mockExchangeRates[a][b]
HasRate(a, b) == a \in DOMAIN mockExchangeRates /\ b \in DOMAIN mockExchangeRates[a]

\* currencies.find(c => c.code === code)?.symbol || code
symbolOf(code) ==
  IF \E k \in DOMAIN currencies : currencies[k].code = code
    THEN currencies[CHOOSE k \in DOMAIN currencies :
                      /\ currencies[k].code = code
                      /\ \A j \in 1..(k - 1) : currencies[j].code # code].symbol
    ELSE code

\* the `exchangeRate` of convertCurrency for two different currencies
exchangeRateOf(fromCurrency, toCurrency) ==
  IF HasRate(fromCurrency, toCurrency)
    THEN mockExchangeRates[fromCurrency][toCurrency]
  ELSE IF HasRate(toCurrency, fromCurrency)
    THEN RDiv(R(1), mockExchangeRates[toCurrency][fromCurrency])
  ELSE IF HasRate("USD", fromCurrency) /\ HasRate("USD", toCurrency)
    THEN RMul(RDiv(R(1), mockExchangeRates["USD"][fromCurrency]),
              mockExchangeRates["USD"][toCurrency])
  ELSE R(1)

\* a variant of convertCurrency: the rate drifts with the clock
convertCurrencyDrifting(amount, fromCurrency, toCurrency, t) ==
  LET Converted(exchangeRate) ==
        [convertedAmount |-> RNorm(RMul(amount, exchangeRate)),
         exchangeRate    |-> RNorm(exchangeRate),
         fromSymbol      |-> symbolOf(fromCurrency),
         toSymbol        |-> symbolOf(toCurrency),
         lastUpdated     |-> toLocaleString(t)]
  IN  Converted(RMul(exchangeRateOf(fromCurrency, toCurrency), RQ(100 + t, 100)))

\* convertCurrency, the clock reading t
convertCurrency(amount, fromCurrency, toCurrency, t) ==
  LET Converted(exchangeRate) ==
        [convertedAmount |-> RNorm(RMul(amount, exchangeRate)),
         exchangeRate    |-> RNorm(exchangeRate),
         fromSymbol      |-> symbolOf(fromCurrency),
         toSymbol        |-> symbolOf(toCurrency),
         lastUpdated     |-> toLocaleString(t)]
  IN  IF fromCurrency = toCurrency
        THEN [convertedAmount |-> amount,
              exchangeRate    |-> R(1),
              fromSymbol      |-> symbolOf(fromCurrency),
              toSymbol        |-> symbolOf(toCurrency),
              lastUpdated     |-> toLocaleString(t)]
        ELSE Converted(exchangeRateOf(fromCurrency, toCurrency))

\* the `newRate` onSubmit puts in front of historicalRates
newRate(data, conversion, t) ==
  [date |-> toLocaleDateString(t),
   rate |-> conversion.exchangeRate,
   pair |-> data.fromCurrency \o "/" \o data.toCurrency]

(***************************************************************************)
(* utils/calculations.ts: compound interest                                *)
(***************************************************************************)
\* a variant of calculateCompoundInterest: simple interest
calculateSimpleInterest(principal, rate, time, compoundFrequency) ==
  LET Rounded(amount) ==
        [amount    |-> MathRound(amount),
         interest  |-> MathRound(RSub(amount, principal)),
         principal |-> MathRound(principal)]
  IN  Rounded(RMul(principal, RAdd(R(1), RMul(RDiv(rate, R(100)), time))))

calculateCompoundInterest(principal, rate, time, compoundFrequency) ==
  LET Rounded(amount) ==
        [amount    |-> MathRound(amount),
         interest  |-> MathRound(RSub(amount, principal)),
         principal |-> MathRound(principal)]
  IN  Rounded(RMul(principal,
                   MathPow(RAdd(R(1), RDiv(RDiv(rate, R(100)), compoundFrequency)),
                           RMul(compoundFrequency, time))))

(***************************************************************************)
(* Lump sum calculator                                                     *)
(***************************************************************************)
lumpSumDefaultValues ==
  [principalAmount |-> R(100000), expectedReturn |-> R(12), investmentPeriod |-> R(10)]

lumpSumSchema(data) ==
     {f \in {"principalAmount"} : RLt(data.principalAmount, R(1000))}
  \cup {f \in {"expectedReturn"} : RLt(data.expectedReturn, R(1))
                                   \/ RLt(R(30), data.expectedReturn)}
  \cup {f \in {"investmentPeriod"} : RLt(data.investmentPeriod, R(1))
                                     \/ RLt(R(50), data.investmentPeriod)}

\* the submissions the model computes: a power that is rational
LumpSumModelled(data) ==
  PowDefined(RAdd(R(1), RDiv(data.expectedReturn, R(100))), data.investmentPeriod)

(***************************************************************************)
(* utils/calculations.ts: FIRE                                             *)
(***************************************************************************)
\* Math.ceil(Math.log(target) / Math.log(1 + monthlyRate) / 12) for a target
\* above 1: the least number of years y, from `years` on, whose growth
\* (1 + monthlyRate)^(12 y) reaches the target; `grown` is the growth of `years`
RECURSIVE CeilYearsToReach(_, _, _, _)
CeilYearsToReach(target, yearlyGrowth, grown, years) ==
  IF Len(grown.den) > 0 /\ RLe(target, grown) THEN years
  ELSE CeilYearsToReach(target, yearlyGrowth, RMul(grown, yearlyGrowth), years + 1)

\* a variant of fireNumberOf: twenty years of expenses
fireNumberOfTwentyYears(monthlyExpenses) == RMul(RMul(monthlyExpenses, R(12)), R(20))

\* the `fireNumber` of calculateFIRE
fireNumberOf(monthlyExpenses) == RMul(RMul(monthlyExpenses, R(12)), R(25))

calculateFIRE(currentAge, currentSavings, monthlyExpenses, monthlySavings, expectedReturn) ==
  LET Later(fireNumber, shortfall, yearsToFire) ==
        [fireNumber  |-> MathRound(fireNumber),
         yearsToFire |-> yearsToFire,
         fireAge     |-> RNorm(RAdd(currentAge, R(yearsToFire))),
         shortfall   |-> MathRound(shortfall)]
      Years(fireNumber, shortfall, monthlyRate) ==
        Later(fireNumber, shortfall,
              CeilYearsToReach(
                RAdd(R(1), RDiv(RMul(shortfall, monthlyRate), monthlySavings)),
                RPowInt(RAdd(R(1), monthlyRate), 12), R(1), 0))
      Calc(fireNumber) ==
        IF RLe(fireNumber, currentSavings)
          THEN [fireNumber  |-> MathRound(fireNumber),
                yearsToFire |-> 0,
                fireAge     |-> RNorm(currentAge),
                shortfall   |-> 0]
          ELSE Years(fireNumber, RSub(fireNumber, currentSavings),
                     RNorm(RDiv(expectedReturn, R(12 * 100))))
  IN  Calc(fireNumberOf(monthlyExpenses))

(***************************************************************************)
(* FIRE calculator                                                         *)
(***************************************************************************)
fireDefaultValues ==
  [currentAge |-> R(25), currentSavings |-> R(0), monthlyExpenses |-> R(40000),
   monthlySavings |-> R(20000), expectedReturn |-> R(12)]

fireSchema(data) ==
     {f \in {"currentAge"} : RLt(data.currentAge, R(18)) \/ RLt(R(60), data.currentAge)}
  \cup {f \in {"currentSavings"} : RLt(data.currentSavings, R(0))}
  \cup {f \in {"monthlyExpenses"} : RLt(data.monthlyExpenses, R(5000))}
  \cup {f \in {"monthlySavings"} : RLt(data.monthlySavings, R(1000))}
  \cup {f \in {"expectedReturn"} : RLt(data.expectedReturn, R(5))
                                   \/ RLt(R(25), data.expectedReturn)}

\* the fields onSubmit of the FIRE calculator sets an error on
fireCrossFieldErrors(data) ==
  {f \in {"monthlySavings"} : RLe(data.monthlyExpenses, data.monthlySavings)}

(***************************************************************************)
(* Car loan calculator                                                     *)
(***************************************************************************)
carLoanDefaultValues ==
  [carPrice |-> R(1200000), downPayment |-> R(240000), tradeInValue |-> R(0),
   interestRate |-> RQ(95, 10), loanTenure |-> R(5), processingFee |-> R(15000),
   insurance |-> R(45000), extendedWarranty |-> R(25000), carType |-> "new"]

carLoanSchema(data) ==
     {f \in {"carPrice"} : RLt(data.carPrice, R(100000))}
  \cup {f \in {"downPayment"} : RLt(data.downPayment, R(0))}
  \cup {f \in {"tradeInValue"} : RLt(data.tradeInValue, R(0))}
  \cup {f \in {"interestRate"} : RLt(data.interestRate, Dec(1, 10))
                                 \/ RLt(R(30), data.interestRate)}
  \cup {f \in {"loanTenure"} : RLt(data.loanTenure, R(1)) \/ RLt(R(7), data.loanTenure)}
  \cup {f \in {"processingFee"} : RLt(data.processingFee, R(0))}
  \cup {f \in {"insurance"} : RLt(data.insurance, R(0))}
  \cup {f \in {"extendedWarranty"} : RLt(data.extendedWarranty, R(0))}

calculateCarLoan(data) ==
  LET Record(netFinancedAmount, loanAmount, emiResult, estimatedValueAfterLoan) ==
        [loanAmount              |-> MathRound(loanAmount),
         emi                     |-> emiResult.emi,
         totalInterest           |-> emiResult.totalInterest,
         totalAmountPayable      |-> emiResult.totalAmount,
         netFinancedAmount       |-> MathRound(netFinancedAmount),
         upfrontCosts            |->
           MathRound(RAdd(RAdd(RAdd(data.downPayment, data.processingFee),
                               data.insurance),
                          IF data.carType = "new" THEN data.extendedWarranty ELSE R(0))),
         totalCostOfOwnership    |->
           MathRound(RAdd(RAdd(RAdd(RAdd(data.carPrice, data.processingFee),
                                    data.insurance), data.extendedWarranty),
                          R(emiResult.totalInterest))),
         estimatedValueAfterLoan |-> MathRound(estimatedValueAfterLoan),
         totalDepreciation       |-> MathRound(RSub(data.carPrice, estimatedValueAfterLoan)),
         loanToValueRatio        |->
           IF RLt(R(0), data.carPrice)
             THEN MathRound(RMul(RDiv(loanAmount, data.carPrice), R(100)))
             ELSE 0,
         effectiveInterestRate   |->
           IF RLt(R(0), loanAmount)
             THEN RQ(MathRound(RMul(RDiv(RDiv(R(emiResult.totalInterest), loanAmount),
                                         data.loanTenure), R(10000))), 100)
             ELSE R(0)]
      Loan(netFinancedAmount, loanAmount) ==
        Record(netFinancedAmount, loanAmount,
               IF RLt(R(0), loanAmount)
                 THEN calculateEMI(loanAmount, data.interestRate, data.loanTenure)
                 ELSE [emi |-> 0, totalAmount |-> 0, totalInterest |-> 0],
               RMul(data.carPrice,
                    MathPow(RSub(R(1), IF data.carType = "new" THEN Dec(15, 100)
                                                               ELSE Dec(10, 100)),
                            data.loanTenure)))
      Net(netFinancedAmount) ==
        Loan(netFinancedAmount,
             MathMax(R(0), RAdd(netFinancedAmount, data.processingFee)))
  IN  Net(RAdd(RAdd(RSub(RSub(data.carPrice, data.downPayment), data.tradeInValue),
                    data.insurance), data.extendedWarranty))

\* the fields onSubmit of the car loan calculator sets an error on
carLoanCrossFieldErrors(data) ==
  {f \in {"downPayment"} : RLe(data.carPrice, RAdd(data.downPayment, data.tradeInValue))}

(***************************************************************************)
(* utils/calculations.ts: retirement corpus, break-even                    *)
(***************************************************************************)
calculateRetirementCorpus(currentAge, retirementAge, monthlyExpenses, inflationRate, expectedReturn) ==
  LET Rounded(requiredCorpus, monthlySIP, futureMonthlyExpenses) ==
        [requiredCorpus        |-> MathRound(requiredCorpus),
         monthlySIP            |-> MathRound(monthlySIP),
         futureMonthlyExpenses |-> MathRound(futureMonthlyExpenses),
         currentValue          |-> MathRound(monthlyExpenses)]
      Sip(requiredCorpus, futureMonthlyExpenses, monthlyRate, pow) ==
        Rounded(requiredCorpus,
                RDiv(requiredCorpus,
                     RMul(RDiv(RSub(pow, R(1)), monthlyRate), RAdd(R(1), monthlyRate))),
                futureMonthlyExpenses)
      Corpus(futureMonthlyExpenses, monthlyRate, months) ==
        Sip(RMul(RMul(futureMonthlyExpenses, R(12)), R(25)), futureMonthlyExpenses,
            monthlyRate, MathPow(RAdd(R(1), monthlyRate), months))
      Calc(yearsToRetirement) ==
        Corpus(RNorm(RMul(monthlyExpenses,
                          MathPow(RAdd(R(1), RDiv(inflationRate, R(100))),
                                  yearsToRetirement))),
               RNorm(RDiv(expectedReturn, R(12 * 100))),
               RMul(yearsToRetirement, R(12)))
  IN  Calc(RNorm(RSub(retirementAge, currentAge)))

calculateBreakEven(fixedCosts, variableCostPerUnit, pricePerUnit) ==
  LET Rounded(contributionMargin, breakEvenUnits) ==
        [breakEvenUnits            |-> MathRound(breakEvenUnits),
         breakEvenRevenue          |-> MathRound(RMul(breakEvenUnits, pricePerUnit)),
         contributionMargin        |-> MathRound(contributionMargin),
         contributionMarginPercent |->
           MathRound(RMul(RDiv(contributionMargin, pricePerUnit), R(100)))]
      Units(contributionMargin) ==
        Rounded(contributionMargin, RDiv(fixedCosts, contributionMargin))
  IN  Units(RSub(pricePerUnit, variableCostPerUnit))

(***************************************************************************)
(* Retirement calculator                                                   *)
(***************************************************************************)
retirementDefaultValues ==
  [currentAge |-> R(30), retirementAge |-> R(60), monthlyExpenses |-> R(50000),
   inflationRate |-> R(6), expectedReturn |-> R(12)]

retirementSchema(data) ==
     {f \in {"currentAge"} : RLt(data.currentAge, R(18)) \/ RLt(R(65), data.currentAge)}
  \cup {f \in {"retirementAge"} : RLt(data.retirementAge, R(50))
                                  \/ RLt(R(75), data.retirementAge)}
  \cup {f \in {"monthlyExpenses"} : RLt(data.monthlyExpenses, R(10000))}
  \cup {f \in {"inflationRate"} : RLt(data.inflationRate, R(2))
                                  \/ RLt(R(15), data.inflationRate)}
  \cup {f \in {"expectedReturn"} : RLt(data.expectedReturn, R(5))
                                   \/ RLt(R(25), data.expectedReturn)}

\* the fields onSubmit of the retirement calculator sets an error on
retirementCrossFieldErrors(data) ==
  {f \in {"retirementAge"} : RLe(data.retirementAge, data.currentAge)}

(***************************************************************************)
(* Break-even calculator                                                   *)
(***************************************************************************)
breakEvenDefaultValues ==
  [fixedCosts |-> R(500000), variableCostPerUnit |-> R(200), pricePerUnit |-> R(500),
   targetProfit |-> R(100000)]

breakEvenSchema(data) ==
     {f \in {"fixedCosts"} : RLt(data.fixedCosts, R(0))}
  \cup {f \in {"variableCostPerUnit"} : RLt(data.variableCostPerUnit, R(0))}
  \cup {f \in {"pricePerUnit"} : RLt(data.pricePerUnit, Dec(1, 100))}
  \cup {f \in {"targetProfit"} : RLt(data.targetProfit, R(0))}

calculateExtendedBreakEven(data) ==
  LET Extended(basicBreakEven, unitsForTargetProfit, currentUnits, marginOfSafety) ==
        [breakEvenUnits            |-> basicBreakEven.breakEvenUnits,
         breakEvenRevenue          |-> basicBreakEven.breakEvenRevenue,
         contributionMargin        |-> basicBreakEven.contributionMargin,
         contributionMarginPercent |-> basicBreakEven.contributionMarginPercent,
         targetProfit              |-> data.targetProfit,
         unitsForTargetProfit      |-> unitsForTargetProfit,
         revenueForTargetProfit    |-> RNorm(RMul(R(unitsForTargetProfit), data.pricePerUnit)),
         marginOfSafety            |-> MathRound(marginOfSafety),
         marginOfSafetyPercentage  |->
           RQ(MathRound(RMul(IF RLt(R(0), currentUnits)
                               THEN RMul(RDiv(marginOfSafety, currentUnits), R(100))
                               ELSE R(0),
                             R(100))), 100),
         variableCostTotal         |->
           MathRound(RMul(R(basicBreakEven.breakEvenUnits), data.variableCostPerUnit)),
         totalCostAtBreakEven      |->
           MathRound(RAdd(data.fixedCosts,
                          RMul(R(basicBreakEven.breakEvenUnits), data.variableCostPerUnit)))]
      Safety(basicBreakEven, unitsForTargetProfit, currentUnits) ==
        Extended(basicBreakEven, unitsForTargetProfit, currentUnits,
                 MathMax(R(0), RSub(currentUnits, R(basicBreakEven.breakEvenUnits))))
      Target(basicBreakEven) ==
        Safety(basicBreakEven,
               IF RLt(R(0), data.targetProfit)
                 THEN MathCeil(RDiv(RAdd(data.fixedCosts, data.targetProfit),
                                    RSub(data.pricePerUnit, data.variableCostPerUnit)))
                 ELSE 0,
               RMul(R(basicBreakEven.breakEvenUnits), Dec(12, 10)))
  IN  Target(calculateBreakEven(data.fixedCosts, data.variableCostPerUnit,
                                data.pricePerUnit))

\* the fields onSubmit of the break-even calculator sets an error on
breakEvenCrossFieldErrors(data) ==
  {f \in {"pricePerUnit"} : RLe(data.pricePerUnit, data.variableCostPerUnit)}

(***************************************************************************)
(* Rent vs buy calculator                                                  *)
(***************************************************************************)
rentVsBuyDefaultValues ==
  [homePrice |-> R(5000000), downPayment |-> R(1000000), loanInterestRate |-> RQ(85, 10),
   loanTenure |-> R(20), monthlyRent |-> R(25000), rentIncreaseRate |-> R(5),
   homeAppreciationRate |-> R(7), investmentReturn |-> R(12),
   maintenanceCost |-> R(60000), analysisYears |-> R(10)]

rentVsBuySchema(data) ==
     {f \in {"homePrice"} : RLt(data.homePrice, R(100000))}
  \cup {f \in {"downPayment"} : RLt(data.downPayment, R(0))}
  \cup {f \in {"loanInterestRate"} : RLt(data.loanInterestRate, R(1))
                                     \/ RLt(R(20), data.loanInterestRate)}
  \cup {f \in {"loanTenure"} : RLt(data.loanTenure, R(1)) \/ RLt(R(30), data.loanTenure)}
  \cup {f \in {"monthlyRent"} : RLt(data.monthlyRent, R(1000))}
  \cup {f \in {"rentIncreaseRate"} : RLt(data.rentIncreaseRate, R(0))
                                     \/ RLt(R(20), data.rentIncreaseRate)}
  \cup {f \in {"homeAppreciationRate"} : RLt(data.homeAppreciationRate, R(0))
                                         \/ RLt(R(20), data.homeAppreciationRate)}
  \cup {f \in {"investmentReturn"} : RLt(data.investmentReturn, R(1))
                                     \/ RLt(R(25), data.investmentReturn)}
  \cup {f \in {"maintenanceCost"} : RLt(data.maintenanceCost, R(0))}
  \cup {f \in {"analysisYears"} : RLt(data.analysisYears, R(1))
                                  \/ RLt(R(30), data.analysisYears)}

\* the for loop of calculateRentVsBuy, from `year` on: the totals after it
RECURSIVE RentVsBuyYears(_, _, _, _, _, _, _)
RentVsBuyYears(year, data, emi, totalBuyingCost, totalRentCost, currentRent, currentHomeValue) ==
  IF Len(totalBuyingCost.den) + Len(totalRentCost.den) + Len(currentRent.den)
       + Len(currentHomeValue.den) > 0 /\ RLe(R(year), data.analysisYears)
    THEN RentVsBuyYears(year + 1, data, emi,
           RAdd(IF RLe(R(year), data.loanTenure)
                  THEN RAdd(totalBuyingCost, RMul(emi, R(12)))
                  ELSE totalBuyingCost,
                data.maintenanceCost),
           RAdd(totalRentCost, RMul(currentRent, R(12))),
           RNorm(RMul(currentRent, RAdd(R(1), RDiv(data.rentIncreaseRate, R(100))))),
           RNorm(RMul(currentHomeValue,
                      RAdd(R(1), RDiv(data.homeAppreciationRate, R(100))))))
    ELSE [totalBuyingCost |-> totalBuyingCost, totalRentCost |-> totalRentCost,
          currentRent |-> currentRent, currentHomeValue |-> currentHomeValue]

calculateRentVsBuy(data) ==
  LET Record(emi, after, opportunityCostDownPayment, netBuyingCost, savings) ==
        [totalBuyingCost            |-> MathRound(after.totalBuyingCost),
         totalRentCost              |-> MathRound(after.totalRentCost),
         netBuyingCost              |-> MathRound(netBuyingCost),
         homeValueAfterYears        |-> MathRound(after.currentHomeValue),
         emi                        |-> MathRound(emi),
         stampDutyAndRegistration   |-> MathRound(RMul(data.homePrice, Dec(3, 100))),
         opportunityCostDownPayment |-> MathRound(opportunityCostDownPayment),
         savings                    |-> Abs(MathRound(savings)),
         recommendation             |-> IF RLt(R(0), savings) THEN "Buy" ELSE "Rent",
         breakEvenMonth             |->
           MathRound(RDiv(RSub(after.totalBuyingCost, after.totalRentCost),
                          RSub(RSub(after.currentRent, emi),
                               RDiv(data.maintenanceCost, R(12)))))]
      Savings(emi, after, opportunityCostDownPayment, netBuyingCost) ==
        Record(emi, after, opportunityCostDownPayment, netBuyingCost,
               RSub(after.totalRentCost,
                    MathMax(R(0), RAdd(netBuyingCost,
                                       RSub(opportunityCostDownPayment,
                                            data.downPayment)))))
      After(emi, after) ==
        Savings(emi, after,
                RMul(data.downPayment,
                     MathPow(RAdd(R(1), RDiv(data.investmentReturn, R(100))),
                             data.analysisYears)),
                RSub(after.totalBuyingCost, after.currentHomeValue))
      Years(emi) ==
        After(emi,
              RentVsBuyYears(1, data, emi,
                RAdd(data.downPayment, RMul(data.homePrice, Dec(3, 100))),
                R(0), data.monthlyRent, data.homePrice))
      Emi(loanAmount, monthlyInterestRate, pow) ==
        Years(IF RLt(R(0), loanAmount)
                THEN RNorm(RDiv(RMul(RMul(loanAmount, monthlyInterestRate), pow),
                                RSub(pow, R(1))))
                ELSE R(0))
      Calc(monthlyInterestRate) ==
        Emi(RSub(data.homePrice, data.downPayment), monthlyInterestRate,
            MathPow(RAdd(R(1), monthlyInterestRate), RMul(data.loanTenure, R(12))))
  IN  Calc(RNorm(RDiv(data.loanInterestRate, R(12 * 100))))

\* the submissions the model computes: loan tenures within the bound
RentVsBuyModelled(data) == RLt(data.loanTenure, R(MaxTenureYears + 1))

\* the fields onSubmit of the rent vs buy calculator sets an error on
rentVsBuyCrossFieldErrors(data) ==
  {f \in {"downPayment"} : RLe(data.homePrice, data.downPayment)}

(***************************************************************************)
(* LoanAmortizationCalculator: the displayed schedule and the downloads    *)
(***************************************************************************)
\* Array.prototype.slice(start, end) for 0 <= start
slice(rows, start, end) == SubSeq(rows, start + 1, Min2(end, Len(rows)))

\* yearData.reduce((sum, month) => sum + month[field], 0)
RECURSIVE reduceSum(_, _)
reduceSum(yearData, field) ==
  IF yearData = <<>> THEN 0
  ELSE reduceSum(SubSeq(yearData, 1, Len(yearData) - 1), field)
         + yearData[Len(yearData)][field]

\* the row of a year in the yearly view
yearSummary(year, yearData) ==
  [period        |-> <<"Year", year>>,
   totalEMI      |-> reduceSum(yearData, "emi"),
   totalPrincipal |-> reduceSum(yearData, "principalPayment"),
   totalInterest |-> reduceSum(yearData, "interestPayment"),
   endingBalance |-> IF yearData = <<>> THEN 0
                     ELSE yearData[Len(yearData)].remainingBalance]

\* the for loop of the yearly view, from `year` on
RECURSIVE yearlySchedule(_, _, _)
yearlySchedule(year, loanTenure, rows) ==
  IF ~RLe(R(year), loanTenure) THEN <<>>
  ELSE (IF (year - 1) * 12 + 1 <= Len(rows)
          THEN <<yearSummary(year, slice(rows, (year - 1) * 12, Min2(year * 12, Len(rows))))>>
          ELSE <<>>)
       \o yearlySchedule(year + 1, loanTenure, rows)

\* a variant of getDisplaySchedule: the monthly view shows the first year
getDisplayScheduleFirstYear ==
  IF viewMode = "yearly"
    THEN yearlySchedule(1, form.loanTenure, schedule)
    ELSE slice(schedule, 0, 12)

\* getDisplaySchedule: the rows of the table
getDisplaySchedule ==
  IF viewMode = "yearly"
    THEN yearlySchedule(1, form.loanTenure, schedule)
    ELSE slice(schedule, 0, 60)

\* the note under the table: `Showing first 60 months. ...`
ShowingFirst60Months == viewMode = "monthly" /\ Len(schedule) > 60

\* the rows of csvContent before they are joined: the lines of the heading,
\* then one row of cells for each row of the schedule
csvContent ==
  <<<<"Loan Amortization Schedule">>,
    <<"Loan Amount", form.loanAmount>>,
    <<"Interest Rate", form.interestRate>>,
    <<"Loan Tenure", form.loanTenure>>,
    <<"Monthly EMI", summary[1].emi>>,
    <<"">>,
    <<"Month", "EMI", "Principal", "Interest", "Balance">>>>
  \o [k \in 1..Len(schedule) |->
        <<schedule[k].month, schedule[k].emi, schedule[k].principalPayment,
          schedule[k].interestPayment, schedule[k].remainingBalance>>]

\* the argument handleDownloadPDF gives to generatePDF
pdfReport ==
  [title          |-> "Loan Amortization Schedule Report",
   inputs         |-> form,
   results        |-> summary[1],
   schedulePreview |-> slice(schedule, 0, 12),
   calculatorType |-> "loan-amortization"]

(***************************************************************************)
(* The calculator catalogue and the routes                                 *)
(***************************************************************************)
\* calculatorCategories: the ids and the names
calculatorCategories ==
  <<[id |-> "loan-debt", name |-> "Loan & Debt Management",
     calculators |-> <<[id |-> "emi", name |-> "EMI Calculator"],
                       [id |-> "loan-amortization", name |-> "Loan Amortization Schedule"],
                       [id |-> "car-loan", name |-> "Car Loan Calculator"]>>],
    [id |-> "investment-wealth", name |-> "Investment & Wealth Creation",
     calculators |-> <<[id |-> "sip", name |-> "SIP Calculator"],
                       [id |-> "lump-sum", name |-> "Lump Sum Investment Calculator"],
                       [id |-> "ppf", name |-> "PPF Calculator"]>>],
    [id |-> "retirement-planning", name |-> "Retirement & Long-Term Planning",
     calculators |-> <<[id |-> "retirement-corpus", name |-> "Retirement Corpus Calculator"],
                       [id |-> "fire", name |-> "FIRE Calculator"],
                       [id |-> "inflation-adjusted", name |-> "Inflation-Adjusted Future Value"]>>],
    [id |-> "tax-income", name |-> "Tax & Income Planning",
     calculators |-> <<[id |-> "income-tax", name |-> "Income Tax Calculator"],
                       [id |-> "hra-exemption", name |-> "HRA Exemption Calculator"],
                       [id |-> "net-salary", name |-> "Net Salary Calculator"]>>],
    [id |-> "smart-life-tools", name |-> "Smart Life Decision Tools",
     calculators |-> <<[id |-> "rent-vs-buy", name |-> "Rent vs Buy Calculator"],
                       [id |-> "emergency-fund", name |-> "Emergency Fund Calculator"],
                       [id |-> "net-worth", name |-> "Net Worth Tracker"]>>],
    [id |-> "utility-tools", name |-> "Other Utility Tools",
     calculators |-> <<[id |-> "compound-interest", name |-> "Compound Interest Calculator"],
                       [id |-> "currency-converter", name |-> "Currency Converter"],
                       [id |-> "break-even", name |-> "Break-even Point Calculator"]>>]>>

\* calculatorCategories.flatMap(category => category.calculators)
RECURSIVE flatMapCalculators(_)
flatMapCalculators(categories) ==
  IF categories = <<>> THEN <<>>
  ELSE categories[1].calculators \o flatMapCalculators(Tail(categories))

\* .reduce((acc, calculator) => { acc[calculator.id] = calculator; ... }, {}):
\* the own properties of the object, a later calculator replacing an earlier
\* one of the same id
RECURSIVE reduceById(_, _)
reduceById(calculators, acc) ==
  IF calculators = <<>> THEN acc
  ELSE reduceById(Tail(calculators),
         [id \in DOMAIN acc \cup {calculators[1].id} |->
            IF id = calculators[1].id THEN calculators[1] ELSE acc[id]])

\* calculatorConfigs: its own properties
calculatorConfigs == reduceById(flatMapCalculators(calculatorCategories), <<>>)

\* calculatorComponents: its own properties, a component by its name
calculatorComponents ==
  [emi |-> "EMICalculator"] @@
  ("loan-amortization" :> "LoanAmortizationCalculator") @@
  ("car-loan" :> "CarLoanCalculator") @@
  ("sip" :> "SIPCalculator") @@
  ("lump-sum" :> "LumpSumCalculator") @@
  ("ppf" :> "PPFCalculator") @@
  ("retirement-corpus" :> "RetirementCalculator") @@
  ("fire" :> "FIRECalculator") @@
  ("inflation-adjusted" :> "InflationCalculator") @@
  ("income-tax" :> "IncomeTaxCalculator") @@
  ("hra-exemption" :> "HRACalculator") @@
  ("net-salary" :> "NetSalaryCalculator") @@
  ("rent-vs-buy" :> "RentVsBuyCalculator") @@
  ("emergency-fund" :> "EmergencyFundCalculator") @@
  ("net-worth" :> "NetWorthCalculator") @@
  ("compound-interest" :> "CompoundInterestCalculator") @@
  ("currency-converter" :> "CurrencyConverter") @@
  ("break-even" :> "BreakEvenCalculator")

\* the properties every object created by an object literal inherits from
\* Object.prototype; the value of each is a function or an object
ObjectPrototypeKeys ==
  {"constructor", "hasOwnProperty", "isPrototypeOf", "propertyIsEnumerable",
   "toLocaleString", "toString", "valueOf", "__proto__", "__defineGetter__",
   "__defineSetter__", "__lookupGetter__", "__lookupSetter__"}

\* object[key] is truthy: an own property (none of the two objects holds a
\* falsy value) or an inherited one
HasTruthy(object, key) == key \in DOMAIN object \/ key \in ObjectPrototypeKeys

\* CalculatorPage: what it renders for the route parameter calculatorId
CalculatorPageView(calculatorId) ==
  IF ~HasTruthy(calculatorConfigs, calculatorId)
       \/ ~HasTruthy(calculatorComponents, calculatorId)
    THEN "Calculator Not Found"
  ELSE IF calculatorId \in DOMAIN calculatorComponents
    THEN calculatorComponents[calculatorId]
  ELSE "Object.prototype." \o calculatorId

\* Router: the first Route of the Switch that matches the path
RouteView(path) ==
  CASE path = <<>> -> "Dashboard"
    [] Len(path) = 2 /\ path[1] = "calculator" -> CalculatorPageView(path[2])
    [] path = <<"learn">> -> "Learn"
    [] Len(path) = 2 /\ path[1] = "learn" -> "ArticlePage"
    [] OTHER -> "Page Not Found"

(***************************************************************************)
(* CalculatorPage: the calculators by id                                   *)
(***************************************************************************)
DefaultValues(p) ==
  CASE p = "emi" -> emiDefaultValues
    [] p = "loan-amortization" -> amortizationDefaultValues
    [] p = "income-tax" -> incomeTaxDefaultValues
    [] p = "hra-exemption" -> hraDefaultValues
    [] p = "emergency-fund" -> emergencyFundDefaultValues
    [] p = "currency-converter" -> currencyDefaultValues
    [] p = "lump-sum" -> lumpSumDefaultValues
    [] p = "fire" -> fireDefaultValues
    [] p = "car-loan" -> carLoanDefaultValues
    [] p = "retirement-corpus" -> retirementDefaultValues
    [] p = "break-even" -> breakEvenDefaultValues
    [] p = "rent-vs-buy" -> rentVsBuyDefaultValues

\* the fields the zodResolver of the calculator rejects
SchemaErrors(p, data) ==
  CASE p = "emi" -> emiSchema(data)
    [] p = "loan-amortization" -> amortizationSchema(data)
    [] p = "income-tax" -> incomeTaxSchema(data)
    [] p = "hra-exemption" -> hraSchema(data)
    [] p = "emergency-fund" -> emergencyFundSchema(data)
    [] p = "currency-converter" -> currencySchema(data)
    [] p = "lump-sum" -> lumpSumSchema(data)
    [] p = "fire" -> fireSchema(data)
    [] p = "car-loan" -> carLoanSchema(data)
    [] p = "retirement-corpus" -> retirementSchema(data)
    [] p = "break-even" -> breakEvenSchema(data)
    [] p = "rent-vs-buy" -> rentVsBuySchema(data)

(***************************************************************************)
(* The values typed or selected in the fields                              *)
(***************************************************************************)
RateInputs == {RQ(5, 100), RQ(1, 10), RQ(85, 10), RQ(2412, 100), R(50), RQ(5001, 100)}

TenureInputs ==
  {RQ(1, 2), RQ(9, 8), R(15), R(20), R(51)} \cup {R(y) : y \in 1..MaxTenureYears}

IncomeInputs ==
  {R(-1), R(250000), R(300000), R(300010), R(450000), R(750000), R(1000000),
   R(1350000), R(2000000)}

InputValues(p, f) ==
  CASE p = "emi" /\ f = "loanAmount" -> {R(0), R(1), R(1000000)}
    [] p = "loan-amortization" /\ f = "loanAmount" -> {R(0), R(2500000)}
    [] p = "fire" /\ f = "expectedReturn" -> {R(12), R(4)}
    [] p = "fire" /\ f = "monthlyExpenses" -> {R(40000)}
    [] p = "fire" /\ f = "currentAge" -> {R(25), R(17)}
    [] p = "retirement-corpus" /\ f = "currentAge" -> {R(30), R(59), R(60)}
    [] f = "retirementAge" -> {R(60), R(50), R(76)}
    [] p = "retirement-corpus" /\ f = "monthlyExpenses" -> {R(50000)}
    [] f = "inflationRate" -> {R(6)}
    [] p = "retirement-corpus" /\ f = "expectedReturn" -> {R(12)}
    [] f = "fixedCosts" -> {R(500000)}
    [] f = "homePrice" -> {R(5000000), R(99999)}
    [] p = "rent-vs-buy" /\ f = "downPayment" -> {R(1000000), R(5000000), R(6000000)}
    [] f = "loanInterestRate" -> {RQ(85, 10)}
    [] p = "rent-vs-buy" /\ f = "loanTenure" -> {R(20), R(1)}
    [] f = "monthlyRent" -> {R(25000)}
    [] f = "rentIncreaseRate" -> {R(5)}
    [] f = "homeAppreciationRate" -> {R(7)}
    [] f = "investmentReturn" -> {R(12)}
    [] f = "maintenanceCost" -> {R(60000)}
    [] f = "analysisYears" -> {R(10), R(2)}
    [] f = "variableCostPerUnit" -> {R(200), R(500), R(600)}
    [] f = "pricePerUnit" -> {R(500), R(0)}
    [] f = "targetProfit" -> {R(100000), R(0)}
    [] f = "currentSavings" -> {R(0), R(11999999), RQ(23999999, 2), R(12000000)}
    [] f = "monthlySavings" -> {R(20000), R(999), R(40000), R(500000)}
    [] p \in {"emi", "loan-amortization"} /\ f = "interestRate" -> RateInputs
    [] p \in {"emi", "loan-amortization"} /\ f = "loanTenure" -> TenureInputs
    [] p = "car-loan" /\ f = "interestRate" -> {RQ(95, 10), RQ(301, 10)}
    [] p = "car-loan" /\ f = "loanTenure" -> {R(5), R(1)}
    [] f = "carPrice" -> {R(1200000)}
    [] p = "car-loan" /\ f = "downPayment" -> {R(240000), R(1200000), R(1300000)}
    [] f = "tradeInValue" -> {R(0), R(960000)}
    [] f = "processingFee" -> {R(15000)}
    [] f = "insurance" -> {R(45000)}
    [] f = "extendedWarranty" -> {R(25000)}
    [] f = "carType" -> {"new", "used"}
    [] f = "grossIncome" -> IncomeInputs
    [] f = "regime" -> {"new", "old"}
    [] f = "deductions" -> {R(0), R(150000)}
    [] f = "salary" -> {R(600000), R(500000)}
    [] f = "hra" -> {R(-1), R(180000), R(50000)}
    [] f = "rentPaid" -> {R(240000), R(20000)}
    [] f \in {"isMetroCity", "hasHealthInsurance", "hasLifeInsurance"} -> BOOLEAN
    [] p = "emergency-fund" /\ f = "monthlyExpenses" -> {R(50000)}
    [] f = "dependents" -> {R(0), R(1), R(11)}
    [] f = "jobStability" -> {"high", "medium", "low"}
    [] f = "currentEmergencyFund" -> {R(0)}
    [] f = "monthlySavingsCapacity" -> {R(10000)}
    [] f = "amount" -> {R(0), R(250), R(1000)}
    [] f \in {"fromCurrency", "toCurrency"} -> {"USD", "INR"}
    [] f = "principalAmount" -> {R(999), R(10000), RQ(2001, 2)}
    [] p = "lump-sum" /\ f = "expectedReturn" -> {R(8), R(21), R(31)}
    [] f = "investmentPeriod" -> {R(1), RQ(3, 2), R(5), R(10), R(20), R(51)}

\* the longest schedule of the model, in months: more than the 60 rows of the
\* monthly view
MaxScheduleMonths == 61

\* the values of the fields in the model of the table and the downloads: the
\* rate and the tenure of the loan with the longest schedule, and loan amounts
ScheduleRateInputs == {R(48)}

ScheduleTenureInputs == {RQ(MaxScheduleMonths, 12)}

ScheduleAmountInputs == {R(0), R(1), R(1000000), R(5000000)}

\* the loan of the model with the longest schedule
scheduleLongLoan ==
  [loanAmount   |-> R(2500000),
   interestRate |-> R(48),
   loanTenure   |-> RQ(MaxScheduleMonths, 12)]

\* the loan submissions the model computes: tenures within the bound (the EMI
\* calculator's default values besides), and a power that is rational
LoanModelled(p, data) ==
  /\ PowDefined(RAdd(R(1), RDiv(data.interestRate, R(12 * 100))),
                RMul(data.loanTenure, R(12)))
  /\ \/ RLt(data.loanTenure, R(MaxTenureYears + 1))
     \/ p = "emi" /\ data = emiDefaultValues
     \/ p = "loan-amortization" /\ data = scheduleLongLoan

\* the calculators that read the clock
ClockPages == {"emergency-fund", "currency-converter"}

(***************************************************************************)
(* Operations                                                              *)
(***************************************************************************)
\* CalculatorPage has mounted calculatorComponents[p]: fresh form and state
Mounted(p) ==
  /\ page = p
  /\ form = DefaultValues(p)
  /\ errors = {}
  /\ isSubmitted = FALSE
  /\ result = Null
  /\ schedule = <<>>
  /\ summary = Null
  /\ viewMode = "yearly"
  /\ historicalRates = <<>>
  /\ now = 0
  /\ submitted = Null
  /\ downloaded = Null
  /\ location = <<"calculator", p>>

\* the route changes to another calculator
Navigate(p) ==
  /\ p # page
  /\ page' = p
  /\ form' = DefaultValues(p)
  /\ errors' = {}
  /\ isSubmitted' = FALSE
  /\ result' = Null
  /\ schedule' = <<>>
  /\ summary' = Null
  /\ viewMode' = "yearly"
  /\ historicalRates' = <<>>
  /\ now' = 0
  /\ submitted' = Null
  /\ downloaded' = Null
  /\ location' = <<"calculator", p>>

\* the currency converter's watch callback converts at this change
AutoConverts(f, v) ==
  page = "currency-converter" /\ f = "amount" /\ result # Null /\ RLt(R(0), v)

\* field.onChange: the value of field f becomes v; after a submission the
\* changed field is validated again (reValidateMode onChange)
EditField(f, v) ==
  /\ f \in DOMAIN form
  /\ v # form[f]
  /\ ~AutoConverts(f, v)
  /\ form' = [form EXCEPT ![f] = v]
  /\ errors' = IF isSubmitted
                 THEN (errors \ {f}) \cup (SchemaErrors(page, form') \cap {f})
                 ELSE errors
  /\ UNCHANGED <<location, downloaded, page, isSubmitted, result, schedule, summary, viewMode,
                 historicalRates, now, submitted>>

\* form.handleSubmit(onSubmit) of the EMI calculator
EMISubmit ==
  /\ page = "emi"
  /\ isSubmitted' = TRUE
  /\ errors' = emiSchema(form)
  /\ IF emiSchema(form) = {}
       THEN /\ LoanModelled(page, form)
            /\ result' = Some(calculateEMI(form.loanAmount, form.interestRate,
                                           form.loanTenure))
            /\ submitted' = Some(form)
       ELSE UNCHANGED <<result, submitted>>
  /\ UNCHANGED <<location, downloaded, page, form, schedule, summary, viewMode, historicalRates, now>>

\* handleReset of the EMI calculator
EMIReset ==
  /\ page = "emi"
  /\ form' = emiDefaultValues
  /\ errors' = {}
  /\ isSubmitted' = FALSE
  /\ result' = Null
  /\ UNCHANGED <<location, downloaded, page, schedule, summary, viewMode, historicalRates, now, submitted>>

\* form.handleSubmit(onSubmit) of the loan amortization calculator
AmortizationSubmit ==
  /\ page = "loan-amortization"
  /\ isSubmitted' = TRUE
  /\ errors' = amortizationSchema(form)
  /\ IF amortizationSchema(form) = {}
       THEN /\ LoanModelled(page, form)
            /\ schedule' = generateAmortizationSchedule(form.loanAmount,
                                form.interestRate, form.loanTenure)
            /\ summary' = Some(amortizationSummary(form))
            /\ submitted' = Some(form)
       ELSE UNCHANGED <<schedule, summary, submitted>>
  /\ UNCHANGED <<location, downloaded, page, form, result, viewMode, historicalRates, now>>

\* a variant of SetViewMode: the change of view drops the schedule
SetViewModeClearing(v) ==
  /\ page = "loan-amortization"
  /\ schedule # <<>>
  /\ v # viewMode
  /\ viewMode' = v
  /\ schedule' = <<>>
  /\ UNCHANGED <<location, downloaded, page, form, errors, isSubmitted, result, summary,
                 historicalRates, now, submitted>>

\* the Yearly View and Monthly View buttons
SetViewMode(v) ==
  /\ page = "loan-amortization"
  /\ schedule # <<>>
  /\ v # viewMode
  /\ viewMode' = v
  /\ UNCHANGED <<location, downloaded, page, form, errors, isSubmitted, result, schedule, summary,
                 historicalRates, now, submitted>>

\* form.handleSubmit(onSubmit) of the income tax calculator
IncomeTaxSubmit ==
  /\ page = "income-tax"
  /\ isSubmitted' = TRUE
  /\ errors' = incomeTaxSchema(form)
  /\ IF incomeTaxSchema(form) = {}
       THEN /\ result' = Some(incomeTaxResult(form))
            /\ submitted' = Some(form)
       ELSE UNCHANGED <<result, submitted>>
  /\ UNCHANGED <<location, downloaded, page, form, schedule, summary, viewMode, historicalRates, now>>

\* form.handleSubmit(onSubmit) of the HRA calculator
HRASubmit ==
  /\ page = "hra-exemption"
  /\ isSubmitted' = TRUE
  /\ errors' = hraSchema(form)
  /\ IF hraSchema(form) = {}
       THEN /\ result' = Some(calculateHRAExemption(form.salary, form.hra,
                                form.rentPaid, form.isMetroCity))
            /\ submitted' = Some(form)
       ELSE UNCHANGED <<result, submitted>>
  /\ UNCHANGED <<location, downloaded, page, form, schedule, summary, viewMode, historicalRates, now>>

\* form.handleSubmit(onSubmit) of the emergency fund calculator
EmergencyFundSubmit ==
  /\ page = "emergency-fund"
  /\ isSubmitted' = TRUE
  /\ errors' = emergencyFundSchema(form)
  /\ IF emergencyFundSchema(form) = {}
       THEN /\ result' = Some(enhancedResult(form, now))
            /\ submitted' = Some(form)
       ELSE UNCHANGED <<result, submitted>>
  /\ UNCHANGED <<location, downloaded, page, form, schedule, summary, viewMode, historicalRates, now>>

\* form.handleSubmit(onSubmit)() of the currency converter on the values data
CurrencyHandleSubmit(data) ==
  /\ isSubmitted' = TRUE
  /\ errors' = currencySchema(data)
  /\ IF currencySchema(data) = {}
       THEN /\ Len(historicalRates) < MaxConversions
            /\ result' = Some(convertCurrency(data.amount, data.fromCurrency,
                                              data.toCurrency, now))
            /\ historicalRates' =
                 <<newRate(data, result'[1], now)>>
                   \o SubSeq(historicalRates, 1, Min2(4, Len(historicalRates)))
            /\ submitted' = Some(data)
       ELSE UNCHANGED <<result, historicalRates, submitted>>

\* the Convert button
CurrencySubmit ==
  /\ page = "currency-converter"
  /\ CurrencyHandleSubmit(form)
  /\ UNCHANGED <<location, downloaded, page, form, schedule, summary, viewMode, now>>

\* the amount changes while a result is shown: field.onChange, then the watch
\* callback of the useEffect submits the form
AutoConvert(v) ==
  /\ v \in InputValues(page, "amount")
  /\ AutoConverts("amount", v)
  /\ v # form.amount
  /\ form' = [form EXCEPT !.amount = v]
  /\ CurrencyHandleSubmit(form')
  /\ UNCHANGED <<location, downloaded, page, schedule, summary, viewMode, now>>

\* handleSwapCurrencies: the currencies change places, and the form is
\* submitted if a result is shown
handleSwapCurrencies ==
  /\ page = "currency-converter"
  /\ form' = [form EXCEPT !.fromCurrency = form.toCurrency,
                          !.toCurrency = form.fromCurrency]
  /\ IF result # Null
       THEN CurrencyHandleSubmit(form')
       ELSE UNCHANGED <<errors, isSubmitted, result, historicalRates, submitted>>
  /\ UNCHANGED <<location, downloaded, page, schedule, summary, viewMode, now>>

\* form.handleSubmit(onSubmit) of the lump sum calculator
LumpSumSubmit ==
  /\ page = "lump-sum"
  /\ isSubmitted' = TRUE
  /\ errors' = lumpSumSchema(form)
  /\ IF lumpSumSchema(form) = {}
       THEN /\ LumpSumModelled(form)
            /\ result' = Some(calculateCompoundInterest(form.principalAmount,
                                form.expectedReturn, form.investmentPeriod, R(1)))
            /\ submitted' = Some(form)
       ELSE UNCHANGED <<result, submitted>>
  /\ UNCHANGED <<location, downloaded, page, form, schedule, summary, viewMode, historicalRates, now>>

\* form.handleSubmit(onSubmit) of the FIRE calculator: onSubmit sets the
\* error of its cross-field check and goes on to calculate
FIRESubmit ==
  /\ page = "fire"
  /\ isSubmitted' = TRUE
  /\ IF fireSchema(form) = {}
       THEN /\ errors' = fireCrossFieldErrors(form)
            /\ result' = Some(calculateFIRE(form.currentAge, form.currentSavings,
                                form.monthlyExpenses, form.monthlySavings,
                                form.expectedReturn))
            /\ submitted' = Some(form)
       ELSE /\ errors' = fireSchema(form)
            /\ UNCHANGED <<result, submitted>>
  /\ UNCHANGED <<location, downloaded, page, form, schedule, summary, viewMode, historicalRates, now>>

\* form.handleSubmit(onSubmit) of the car loan calculator: onSubmit sets the
\* error of its cross-field check and returns
CarLoanSubmit ==
  /\ page = "car-loan"
  /\ isSubmitted' = TRUE
  /\ IF carLoanSchema(form) # {}
       THEN /\ errors' = carLoanSchema(form)
            /\ UNCHANGED <<result, submitted>>
       ELSE IF carLoanCrossFieldErrors(form) # {}
         THEN /\ errors' = carLoanCrossFieldErrors(form)
              /\ UNCHANGED <<result, submitted>>
         ELSE /\ errors' = {}
              /\ result' = Some(calculateCarLoan(form))
              /\ submitted' = Some(form)
  /\ UNCHANGED <<location, downloaded, page, form, schedule, summary, viewMode, historicalRates, now>>

\* form.handleSubmit(onSubmit) of the retirement calculator: onSubmit sets
\* the error of its cross-field check and returns
RetirementSubmit ==
  /\ page = "retirement-corpus"
  /\ isSubmitted' = TRUE
  /\ IF retirementSchema(form) # {}
       THEN /\ errors' = retirementSchema(form)
            /\ UNCHANGED <<result, submitted>>
       ELSE IF retirementCrossFieldErrors(form) # {}
         THEN /\ errors' = retirementCrossFieldErrors(form)
              /\ UNCHANGED <<result, submitted>>
         ELSE /\ errors' = {}
              /\ result' = Some(calculateRetirementCorpus(form.currentAge,
                                  form.retirementAge, form.monthlyExpenses,
                                  form.inflationRate, form.expectedReturn))
              /\ submitted' = Some(form)
  /\ UNCHANGED <<location, downloaded, page, form, schedule, summary, viewMode, historicalRates, now>>

\* form.handleSubmit(onSubmit) of the break-even calculator: onSubmit sets
\* the error of its cross-field check and returns
BreakEvenSubmit ==
  /\ page = "break-even"
  /\ isSubmitted' = TRUE
  /\ IF breakEvenSchema(form) # {}
       THEN /\ errors' = breakEvenSchema(form)
            /\ UNCHANGED <<result, submitted>>
       ELSE IF breakEvenCrossFieldErrors(form) # {}
         THEN /\ errors' = breakEvenCrossFieldErrors(form)
              /\ UNCHANGED <<result, submitted>>
         ELSE /\ errors' = {}
              /\ result' = Some(calculateExtendedBreakEven(form))
              /\ submitted' = Some(form)
  /\ UNCHANGED <<location, downloaded, page, form, schedule, summary, viewMode, historicalRates, now>>

\* form.handleSubmit(onSubmit) of the rent vs buy calculator: onSubmit sets
\* the error of its cross-field check and returns
RentVsBuySubmit ==
  /\ page = "rent-vs-buy"
  /\ isSubmitted' = TRUE
  /\ IF rentVsBuySchema(form) # {}
       THEN /\ errors' = rentVsBuySchema(form)
            /\ UNCHANGED <<result, submitted>>
       ELSE IF rentVsBuyCrossFieldErrors(form) # {}
         THEN /\ errors' = rentVsBuyCrossFieldErrors(form)
              /\ UNCHANGED <<result, submitted>>
         ELSE /\ RentVsBuyModelled(form)
              /\ errors' = {}
              /\ result' = Some(calculateRentVsBuy(form))
              /\ submitted' = Some(form)
  /\ UNCHANGED <<location, downloaded, page, form, schedule, summary, viewMode, historicalRates, now>>

\* time passes
Tick ==
  /\ page \in ClockPages
  /\ now < MaxClock
  /\ now' = now + 1
  /\ UNCHANGED <<location, downloaded, page, form, errors, isSubmitted, result, schedule, summary,
                 viewMode, historicalRates, submitted>>

\* the change of a field of the mounted calculator
Edit == \E f \in DOMAIN form : \E v \in InputValues(page, f) : EditField(f, v)

(***************************************************************************)
(* Specifications                                                          *)
(***************************************************************************)
\* the EMI calculator and the loan amortization calculator
LoanPages == {"emi", "loan-amortization"}

InitLoan == \E p \in LoanPages : Mounted(p)

NextLoan ==
  \/ Edit
  \/ EMISubmit
  \/ EMIReset
  \/ AmortizationSubmit
  \/ \E v \in {"yearly", "monthly"} : SetViewMode(v)

SpecLoan == InitLoan /\ [][NextLoan]_vars

\* the income tax, HRA and emergency fund calculators
TaxPages == {"income-tax", "hra-exemption", "emergency-fund"}

InitTax == \E p \in TaxPages : Mounted(p)

NextTax ==
  \/ Edit
  \/ IncomeTaxSubmit
  \/ HRASubmit
  \/ EmergencyFundSubmit
  \/ Tick

SpecTax == InitTax /\ [][NextTax]_vars

\* every calculator of the model, and the navigation between them
Pages == LoanPages \cup TaxPages \cup {"currency-converter"}

Init == \E p \in Pages : Mounted(p)

Next ==
  \/ \E p \in Pages : Navigate(p)
  \/ Edit
  \/ EMISubmit
  \/ EMIReset
  \/ AmortizationSubmit
  \/ \E v \in {"yearly", "monthly"} : SetViewMode(v)
  \/ IncomeTaxSubmit
  \/ HRASubmit
  \/ EmergencyFundSubmit
  \/ CurrencySubmit
  \/ \E v \in InputValues("currency-converter", "amount") : AutoConvert(v)
  \/ handleSwapCurrencies
  \/ Tick

Spec == Init /\ [][Next]_vars

\* the lump sum and car loan calculators
PlanPages == {"lump-sum", "car-loan"}

InitPlan == \E p \in PlanPages : Mounted(p)

NextPlan ==
  \/ Edit
  \/ LumpSumSubmit
  \/ CarLoanSubmit

SpecPlan == InitPlan /\ [][NextPlan]_vars

\* the calculators whose onSubmit checks one field against another
CrossFieldPages == {"fire", "retirement-corpus", "break-even", "rent-vs-buy"}

InitCrossField == \E p \in CrossFieldPages : Mounted(p)

NextCrossField ==
  \/ Edit
  \/ FIRESubmit
  \/ RetirementSubmit
  \/ BreakEvenSubmit
  \/ RentVsBuySubmit

SpecCrossField == InitCrossField /\ [][NextCrossField]_vars


\* the values of a field in that model
ScheduleInputs(f) ==
  CASE f = "loanAmount" -> ScheduleAmountInputs
    [] f = "interestRate" -> ScheduleRateInputs
    [] f = "loanTenure" -> ScheduleTenureInputs

\* the change of a field of the loan amortization calculator
EditLoan == \E f \in DOMAIN form : \E v \in ScheduleInputs(f) : EditField(f, v)

\* the Download CSV button
handleDownloadCSV ==
  /\ page = "loan-amortization"
  /\ summary # Null
  /\ downloaded' = Some([type |-> "text/csv", content |-> csvContent])
  /\ UNCHANGED <<location, page, form, errors, isSubmitted, result, schedule,
                 summary, viewMode, historicalRates, now, submitted>>

\* the Download PDF Summary button
handleDownloadPDF ==
  /\ page = "loan-amortization"
  /\ summary # Null
  /\ downloaded' = Some([type |-> "pdf", content |-> pdfReport])
  /\ UNCHANGED <<location, page, form, errors, isSubmitted, result, schedule,
                 summary, viewMode, historicalRates, now, submitted>>

\* the loan amortization calculator with its table and its downloads
InitSchedule == Mounted("loan-amortization")

NextSchedule ==
  \/ EditLoan
  \/ AmortizationSubmit
  \/ \E v \in {"yearly", "monthly"} : SetViewMode(v)
  \/ handleDownloadCSV
  \/ handleDownloadPDF

SpecSchedule == InitSchedule /\ [][NextSchedule]_vars

(***************************************************************************)
(* Router: the links and the address bar                                   *)
(***************************************************************************)
\* the calculators whose form the model holds
ModelledPages == Pages \cup PlanPages \cup CrossFieldPages

\* the path renders a calculator component
RendersCalculator(path) ==
  /\ Len(path) = 2
  /\ path[1] = "calculator"
  /\ CalculatorPageView(path[2]) # "Calculator Not Found"

\* the state of the component rendered for the path, newly mounted
MountedAt(path) ==
  /\ location = path
  /\ page = IF RendersCalculator(path) THEN path[2] ELSE ""
  /\ form = IF page \in ModelledPages THEN DefaultValues(page) ELSE <<>>
  /\ errors = {}
  /\ isSubmitted = FALSE
  /\ result = Null
  /\ schedule = <<>>
  /\ summary = Null
  /\ viewMode = "yearly"
  /\ historicalRates = <<>>
  /\ now = 0
  /\ submitted = Null
  /\ downloaded = Null

\* the location changes to the path: the Switch renders its route anew
Go(path) ==
  /\ location' = path
  /\ page' = IF RendersCalculator(path) THEN path[2] ELSE ""
  /\ form' = IF page' \in ModelledPages THEN DefaultValues(page') ELSE <<>>
  /\ errors' = {}
  /\ isSubmitted' = FALSE
  /\ result' = Null
  /\ schedule' = <<>>
  /\ summary' = Null
  /\ viewMode' = "yearly"
  /\ historicalRates' = <<>>
  /\ now' = 0
  /\ submitted' = Null
  /\ downloaded' = Null

\* a calculator's link of the sidebar
SidebarLink ==
  \E c \in DOMAIN calculatorCategories :
    \E k \in DOMAIN calculatorCategories[c].calculators :
      /\ location # <<"calculator", calculatorCategories[c].calculators[k].id>>
      /\ Go(<<"calculator", calculatorCategories[c].calculators[k].id>>)

\* the Learn link of the sidebar
LearnLink ==
  /\ location # <<"learn">>
  /\ Go(<<"learn">>)

\* the Back to Dashboard link of CalculatorPage
BackToDashboard ==
  /\ Len(location) = 2
  /\ location[1] = "calculator"
  /\ Go(<<>>)

\* the calculator URL of the deployment guide
GuideCalculatorUrl == <<"calculator", "emi-calculator">>

\* the paths entered in the address bar: URLs of the deployment guide, ids
\* that are not in the catalogue, and a path without a route
Urls ==
  {GuideCalculatorUrl, <<"learn", "compound-interest">>, <<"about">>,
   <<"calculator", "emi">>,
   <<"calculator", "EMI">>, <<"calculator", "mortgage">>,
   <<"calculator", "constructor">>, <<"calculator", "toString">>}

\* a URL is opened
VisitUrl ==
  \E path \in Urls :
    /\ location # path
    /\ Go(path)

\* the site is opened at the calculator URL of the deployment guide
InitRoute == MountedAt(GuideCalculatorUrl)

NextRoute ==
  \/ SidebarLink
  \/ LearnLink
  \/ BackToDashboard
  \/ VisitUrl
  \/ Edit

SpecRoute == InitRoute /\ [][NextRoute]_vars
(***************************************************************************)
(* Properties                                                              *)
(***************************************************************************)
\* what the mounted calculator shows as its result
Outcome == <<result, schedule, summary>>

\* a step taken by the submit button: the form is validated and keeps its values
Submission ==
  /\ page' = page
  /\ form' = form
  /\ isSubmitted'
  /\ viewMode' = viewMode
  /\ now' = now

RAbs(x) == Mk(FALSE, x.num, x.den)

\* the bounds the EMI and loan amortization forms state for their fields
InLoanBounds(d) ==
  /\ RLe(R(1), d.loanAmount)
  /\ RLe(Dec(1, 10), d.interestRate) /\ RLe(d.interestRate, R(50))
  /\ RLe(R(1), d.loanTenure) /\ RLe(d.loanTenure, R(50))

\* q is (1 + i)^n, by its square: q > 0 and q * q = (1 + i)^(2n)
IsGrowth(q, i, n) ==
  /\ ~q.neg /\ q.num # <<>>
  /\ REq(RMul(q, q), RPowInt(RAdd(R(1), i), MathFloor(RMul(n, R(2)))))

\* k is an integer nearest to P*i*q / (q - 1):  2 |k (q - 1) - P i q| <= q - 1
IsNearestToFormula(k, P, i, q) ==
  RLe(RMul(R(2), RAbs(RSub(RMul(R(k), RSub(q, R(1))), RMul(RMul(P, i), q)))),
      RSub(q, R(1)))

EmiIsFormula(k, d) ==
  LET i == RDiv(d.interestRate, R(1200))
      n == RMul(d.loanTenure, R(12))
      q == MathPow(RAdd(R(1), i), n)
  IN  IsGrowth(q, i, n) /\ IsNearestToFormula(k, d.loanAmount, i, q)

\* C1: the emi the EMI calculator computes for a submission within the bounds
\* (loan amount >= 1, rate in [0.1, 50], tenure in [1, 50]) is the integer
\* nearest to P*i*(1+i)^n / ((1+i)^n - 1), with i = r/1200 and n = 12*t; for
\* P = 1,000,000, r = 8.5 and t = 15 it is 9,847.
C1_EmiIsAmortizationFormula ==
  (page = "emi" /\ result # Null /\ submitted = Some(form)) =>
    /\ InLoanBounds(form)
    /\ EmiIsFormula(result[1].emi, form)
    /\ (form = emiDefaultValues => result[1].emi = 9847)

\* the EMI calculator shows the result of its default values
C1_DefaultLoanComputed ==
  /\ page = "emi"
  /\ result # Null
  /\ form = emiDefaultValues
  /\ submitted = Some(form)

\* C2: for every submission the loan amortization form accepts, the schedule
\* has exactly 12 * loanTenure rows, their months are 1, 2, ... in order, and
\* the remainingBalance of the last row is 0.
C2_ScheduleRepaysLoan ==
  (page = "loan-amortization" /\ summary # Null) =>
    /\ REq(R(Len(schedule)), RMul(submitted[1].loanTenure, R(12)))
    /\ \A k \in 1..Len(schedule) : schedule[k].month = k
    /\ Len(schedule) > 0
    /\ schedule[Len(schedule)].remainingBalance = 0

\* C3: in the EMI and loan amortization forms a submission with a field outside
\* its bounds leaves the result state as it was, and a submission with every
\* field inside its bounds stores the result of the submitted values.
C3_OnlyValidSubmissionsCompute ==
  [][Submission =>
       IF InLoanBounds(form)
         THEN /\ submitted' = Some(form)
              /\ page = "emi" => result' # Null
              /\ page = "loan-amortization" => (summary' # Null /\ schedule' # <<>>)
         ELSE UNCHANGED <<result, schedule, summary, submitted>>]_vars

\* a result is shown, and the form, submitted since, has a field out of bounds
C3_RejectedWithResultShown ==
  /\ isSubmitted
  /\ errors # {}
  /\ ~InLoanBounds(form)
  /\ Outcome # <<Null, <<>>, Null>>

\* C8 as stated: in every row of the schedule principalPayment +
\* interestPayment = emi, for the values stored in the row.
C8_PaymentSplitExact ==
  \A k \in 1..Len(schedule) :
    schedule[k].principalPayment + schedule[k].interestPayment = schedule[k].emi

\* C8, amended: in every row of the schedule principalPayment +
\* interestPayment differs from emi by at most 1 (each is rounded on its own).
C8_PaymentSplitWithinOne ==
  \A k \in 1..Len(schedule) :
    Abs(schedule[k].principalPayment + schedule[k].interestPayment
          - schedule[k].emi) <= 1

\* a schedule with a row whose rounded parts do not add up to the rounded emi
C8_RowOffByOne ==
  \E k \in 1..Len(schedule) :
    schedule[k].principalPayment + schedule[k].interestPayment # schedule[k].emi

\* C9: along the months of a schedule interestPayment never increases,
\* principalPayment never decreases, and remainingBalance never increases and
\* is never negative.
C9_ScheduleMonotone ==
  \A k \in 1..Len(schedule) :
    /\ schedule[k].remainingBalance >= 0
    /\ k > 1 =>
         /\ schedule[k].interestPayment <= schedule[k - 1].interestPayment
         /\ schedule[k].principalPayment >= schedule[k - 1].principalPayment
         /\ schedule[k].remainingBalance <= schedule[k - 1].remainingBalance

\* a schedule of a year or more whose interest falls and whose principal rises
C9_ScheduleGenerated ==
  /\ Len(schedule) >= 12
  /\ schedule[12].interestPayment < schedule[1].interestPayment
  /\ schedule[12].principalPayment > schedule[1].principalPayment
  /\ schedule[12].remainingBalance < schedule[1].remainingBalance

\* the slabs shown under Tax Rates Used: from, to (0: no upper end), rate in %
SlabsShown(regime) ==
  IF regime = "new"
    THEN <<[from |-> 0, to |-> 300000, rate |-> 0],
           [from |-> 300000, to |-> 600000, rate |-> 5],
           [from |-> 600000, to |-> 900000, rate |-> 10],
           [from |-> 900000, to |-> 1200000, rate |-> 15],
           [from |-> 1200000, to |-> 1500000, rate |-> 20],
           [from |-> 1500000, to |-> 0, rate |-> 30]>>
    ELSE <<[from |-> 0, to |-> 250000, rate |-> 0],
           [from |-> 250000, to |-> 500000, rate |-> 5],
           [from |-> 500000, to |-> 1000000, rate |-> 20],
           [from |-> 1000000, to |-> 0, rate |-> 30]>>

\* the part of the income T inside a slab
PartInSlab(T, slab) ==
  MathMax(R(0), RSub(IF slab.to = 0 THEN T ELSE MathMin(T, R(slab.to)), R(slab.from)))

\* the sum over the slabs k..Len(slabs) of (part of T inside the slab) * rate
RECURSIVE ProgressiveSum(_, _, _)
ProgressiveSum(T, slabs, k) ==
  IF k > Len(slabs) THEN R(0)
  ELSE RAdd(RMul(PartInSlab(T, slabs[k]), RQ(slabs[k].rate, 100)),
            ProgressiveSum(T, slabs, k + 1))

\* the taxable income of a submission: the gross income under the new regime,
\* max(0, gross income - deductions) under the old
TaxableIncome(d) ==
  IF d.regime = "new" THEN d.grossIncome
  ELSE IF RLt(d.grossIncome, d.deductions) THEN R(0)
  ELSE RSub(d.grossIncome, d.deductions)

\* C6: for every accepted submission, with T its taxable income, the income tax
\* before cess equals the progressive sum over the slabs shown to the user of
\* (part of T inside the slab) * (slab rate); the tax shown is that sum rounded.
C6_TaxIsProgressiveSum ==
  (page = "income-tax" /\ result # Null) =>
    LET d == submitted[1]
        T == TaxableIncome(d)
        S == ProgressiveSum(T, SlabsShown(d.regime), 1)
    IN  /\ REq(result[1].taxableIncome, T)
        /\ REq(incomeTaxBeforeCess(T, d.regime), S)
        /\ result[1].tax = MathRound(S)

\* tax computed under both regimes' top slabs
C6_TopSlabTaxed ==
  /\ page = "income-tax"
  /\ result # Null
  /\ submitted[1].regime = "old"
  /\ RLt(R(0), submitted[1].deductions)
  /\ RLt(R(1000000), result[1].taxableIncome)
  /\ result[1].tax > 112500

\* C7: for every accepted HRA submission, with basic salary the value of the
\* Annual Basic Salary field, the exemption is the minimum of the HRA received,
\* 50% (metro) or 40% of basic salary, and max(0, rent paid - 10% of basic
\* salary); taxable HRA is the HRA received minus the exemption.
C7_HraExemptionOfBasicSalary ==
  (page = "hra-exemption" /\ result # Null) =>
    LET d == submitted[1]
        basic == d.salary
        exemption ==
          MathMin(d.hra,
            MathMin(RMul(basic, IF d.isMetroCity THEN RQ(50, 100) ELSE RQ(40, 100)),
                    MathMax(R(0), RSub(d.rentPaid, RMul(basic, RQ(10, 100))))))
    IN  /\ result[1].hraExemption = MathRound(exemption)
        /\ result[1].taxableHRA = MathRound(RSub(d.hra, exemption))

\* the months the guidelines give: 6, 7 or 9 by job stability, 0.5 more per
\* dependent, 1 more without health and life insurance both
GuidelineMonths(d) ==
  RAdd(RAdd(R(CASE d.jobStability = "high" -> 6
                [] d.jobStability = "medium" -> 7
                [] d.jobStability = "low" -> 9),
            RMul(d.dependents, RQ(1, 2))),
       R(IF d.hasHealthInsurance /\ d.hasLifeInsurance THEN 0 ELSE 1))

\* C10: for every accepted emergency fund submission the number of months
\* shown is the guidelines' (6, 7 or 9, plus 0.5 per dependent, plus 1 without
\* adequate insurance), and the recommended amount is the monthly expenses
\* multiplied by the number of months shown.
C10_MonthsShownGiveAmount ==
  (page = "emergency-fund" /\ result # Null) =>
    LET d == submitted[1]
    IN  /\ REq(R(result[1].months), GuidelineMonths(d))
        /\ REq(R(result[1].recommendedAmount),
               RMul(d.monthlyExpenses, R(result[1].months)))

\* no result shown
NoOutcome == <<Null, <<>>, Null>>

\* what onSubmit of calculator p stores for the data d, the clock reading t
Stored(p, d, t) ==
  CASE p = "emi" ->
         <<Some(calculateEMI(d.loanAmount, d.interestRate, d.loanTenure)), <<>>, Null>>
    [] p = "loan-amortization" ->
         <<Null,
           generateAmortizationSchedule(d.loanAmount, d.interestRate, d.loanTenure),
           Some(amortizationSummary(d))>>
    [] p = "income-tax" -> <<Some(incomeTaxResult(d)), <<>>, Null>>
    [] p = "hra-exemption" ->
         <<Some(calculateHRAExemption(d.salary, d.hra, d.rentPaid, d.isMetroCity)),
           <<>>, Null>>
    [] p = "emergency-fund" -> <<Some(enhancedResult(d, t)), <<>>, Null>>
    [] p = "currency-converter" ->
         <<Some(convertCurrency(d.amount, d.fromCurrency, d.toCurrency, t)),
           <<>>, Null>>

\* the fields of a result record read off the clock
ClockFields == {"targetAchievementDate", "lastUpdated"}

\* an outcome without the fields read off the clock
Timeless(o) ==
  IF o[1] = Null THEN o
  ELSE <<Some([f \in (DOMAIN o[1][1]) \ ClockFields |-> o[1][1][f]]), o[2], o[3]>>

\* C4 as stated: the result record a calculator shows is a function of the
\* submitted inputs alone: it is the record a submission of the same inputs
\* stores at any time, after any history.
C4_ResultOfInputsAlone ==
  Outcome # NoOutcome =>
    \A t \in 0..MaxClock : Outcome = Stored(page, submitted[1], t)

\* C4, amended: the result record without targetAchievementDate (emergency
\* fund) and lastUpdated (currency converter) is a function of the submitted
\* inputs alone, at any time and after any history; those two fields are read
\* off the clock when the form is submitted.
C4_ResultOfInputsAndClock ==
  [][((Outcome' # Outcome \/ submitted' # submitted) /\ Outcome' # NoOutcome) =>
       IF page' \in ClockPages
         THEN /\ \A t \in 0..MaxClock :
                   Timeless(Outcome') = Timeless(Stored(page', submitted'[1], t))
              /\ Outcome' = Stored(page', submitted'[1], now')
         ELSE Outcome' = Stored(page', submitted'[1], 0)]_vars

\* an emergency fund result whose target date is not the one the same inputs
\* give when the calculator is mounted
C4_TargetDateOfLaterDay ==
  /\ page = "emergency-fund"
  /\ result # Null
  /\ result[1].monthsToGoal > 0
  /\ result[1].targetAchievementDate
       # enhancedResult(submitted[1], 0).targetAchievementDate

\* C5 as stated: while a calculator is mounted, what it shows as its result
\* changes only in a step of the submit button: no change of a field and no
\* other control changes it.
C5_OnlySubmitComputes ==
  [][(page' = page /\ Outcome' # Outcome) => Submission]_vars

\* C5, amended: what a calculator shows as its result changes only when the
\* form is submitted, except that the currency converter, once it shows a
\* result, converts again when the amount changes to a positive value or the
\* currencies are swapped, and that Reset of the EMI calculator clears it.
C5_SubmitSwapAmountOrReset ==
  [][(page' = page /\ Outcome' # Outcome) =>
       \/ Submission
       \/ /\ page = "currency-converter"
          /\ result # Null
          /\ \/ form' = [form EXCEPT !.fromCurrency = form.toCurrency,
                                     !.toCurrency = form.fromCurrency]
             \/ /\ RLt(R(0), form'.amount)
                /\ form' = [form EXCEPT !.amount = form'.amount]
          /\ Outcome' = Stored(page, form', now)
       \/ /\ page = "emi"
          /\ form' = emiDefaultValues
          /\ result' = Null
          /\ ~isSubmitted']_vars

\* the currency converter after a conversion and a swap converted again
C5_ConvertedAfterSwap ==
  /\ page = "currency-converter"
  /\ result # Null
  /\ submitted = Some(form)
  /\ Len(historicalRates) = 2
  /\ historicalRates[1].pair = "INR/USD"
  /\ historicalRates[2].pair = "USD/INR"
  /\ form.amount = currencyDefaultValues.amount

\* principal * (1 + rate/100)^years for whole years
CompoundAmount(principal, rate, years) ==
  RMul(principal, RPowInt(RAdd(R(1), RDiv(rate, R(100))), years))

C13_RejectedOnlyAboveCarPrice ==
  [][(Submission /\ page = "car-loan" /\ carLoanSchema(form) = {}) =>
       IF RLt(form.carPrice, RAdd(form.downPayment, form.tradeInValue))
         THEN "downPayment" \in errors' /\ UNCHANGED <<result, submitted>>
         ELSE /\ errors' = {}
              /\ result' = Some(calculateCarLoan(form))
              /\ submitted' = Some(form)]_vars

\* the fields the cross-field check of calculator p sets an error on
CrossFieldErrors(p, data) ==
  CASE p = "fire" -> fireCrossFieldErrors(data)
    [] p = "retirement-corpus" -> retirementCrossFieldErrors(data)
    [] p = "break-even" -> breakEvenCrossFieldErrors(data)
    [] p = "rent-vs-buy" -> rentVsBuyCrossFieldErrors(data)

\* C18: in the FIRE, retirement, break-even and rent vs buy calculators a
\* submission that passes the schema and fails the cross-field check of
\* onSubmit sets the field error, calculates nothing and leaves the result
\* state as it was.
C18_FailedCheckLeavesResult ==
  [][(/\ Submission
      /\ page \in CrossFieldPages
      /\ SchemaErrors(page, form) = {}
      /\ CrossFieldErrors(page, form) # {}) =>
       /\ errors' = CrossFieldErrors(page, form)
       /\ UNCHANGED <<result, submitted>>]_vars

\* C14: for the two currencies of a conversion shown by the converter, the
\* displayed inverse rate 1 / exchangeRate is the exchange rate that
\* convertCurrency applies to the conversion in the opposite direction.
C14_InverseRateIsReverseRate ==
  (page = "currency-converter" /\ result # Null) =>
    REq(RDiv(R(1), result[1].exchangeRate),
        convertCurrency(R(1), submitted[1].toCurrency, submitted[1].fromCurrency, now).exchangeRate)

\* the data rows of a downloaded CSV file: the rows after the seven heading rows
DataRows(file) == SubSeq(file.content, 8, Len(file.content))

\* C15: once a submission has stored a summary, the monthly view shows the
\* first min(60, schedule length) rows of the schedule, in order and nothing
\* else; a CSV download holds one data row for every month of the complete
\* schedule, in order; and a download happens only while a summary exists.
C15_MonthlyViewAndCsvRows ==
  /\ []((page = "loan-amortization" /\ summary # Null /\ viewMode = "monthly") =>
          getDisplaySchedule = [k \in 1..Min2(60, Len(schedule)) |-> schedule[k]])
  /\ [][downloaded' # downloaded =>
          /\ summary # Null
          /\ downloaded'[1].type = "text/csv" =>
               /\ Len(DataRows(downloaded'[1])) = Len(schedule)
               /\ \A k \in 1..Len(schedule) :
                    /\ schedule[k].month = k
                    /\ DataRows(downloaded'[1])[k] =
                         <<k, schedule[k].emi, schedule[k].principalPayment,
                           schedule[k].interestPayment, schedule[k].remainingBalance>>]_vars

\* a schedule of more than 60 months in the monthly view, downloaded as CSV
C15_LongScheduleDownloaded ==
  /\ page = "loan-amortization"
  /\ viewMode = "monthly"
  /\ Len(schedule) > 60
  /\ Len(getDisplaySchedule) = 60
  /\ ShowingFirst60Months
  /\ downloaded # Null
  /\ downloaded[1].type = "text/csv"
  /\ Len(DataRows(downloaded[1])) = Len(schedule)

\* the ids of the catalogue, in its order
CatalogueIds ==
  [k \in DOMAIN flatMapCalculators(calculatorCategories) |->
     flatMapCalculators(calculatorCategories)[k].id]

\* C16: the catalogue holds 18 calculators in 6 categories, their ids differ
\* pairwise and each has a registered component; the page of a
\* /calculator/<id> URL shows `Calculator Not Found` exactly if the id is not
\* in the catalogue.
C16_NotFoundExactlyOutsideCatalogue ==
  /\ Len(calculatorCategories) = 6
  /\ Len(CatalogueIds) = 18
  /\ \A j, k \in DOMAIN CatalogueIds : CatalogueIds[j] = CatalogueIds[k] => j = k
  /\ \A k \in DOMAIN CatalogueIds : CatalogueIds[k] \in DOMAIN calculatorComponents
  /\ (Len(location) = 2 /\ location[1] = "calculator") =>
       (RouteView(location) = "Calculator Not Found"
          <=> \A k \in DOMAIN CatalogueIds : CatalogueIds[k] # location[2])

\* C17: the calculator URL of the deployment guide, /calculator/emi-calculator,
\* is routed to CalculatorPage, which renders the EMI calculator.
C17_GuideUrlRendersEmi ==
  location = GuideCalculatorUrl =>
    /\ RouteView(location) = CalculatorPageView(GuideCalculatorUrl[2])
    /\ RouteView(location) = "EMICalculator"
    /\ page = "emi"

====
